---- MODULE Spec2Model ----
(***************************************************************************)
(* Qualitative insight engine: the token-budgeted verbatim chunker, the   *)
(* bounded-concurrency request gate with its translation cache, the       *)
(* partial-failure-tolerant batch dispatch (asyncio.gather) and the       *)
(* pipeline orchestrator of src/src/main.py and                           *)
(* src/src/processors/ai_client.py.                                       *)
(***************************************************************************)
EXTENDS Integers, Sequences, FiniteSets, TLC

VARIABLES
    config,          \* AppConfig: the settings the core reads
    all_verbatims,   \* run_pipeline: the extracted verbatim records, in order
    chunks,          \* _chunk_verbatims: the batches it returned
    ck_pc,           \* position of the caller of _chunk_verbatims
    guide,           \* whether find_discussion_guide finds a guide file
    stage,           \* position of run_pipeline (the orchestrator's stage)
    main_report,     \* what main() reported to its caller: none/success/failure
    objectives,      \* run_pipeline: objectives_data.get('objectives', [])
    tasks,           \* per kind of request, the tasks of the gather in progress
    completed,       \* per kind, the positions of its tasks in completion order
    sem_value,       \* AIClient.semaphore: free concurrency slots
    issued,          \* per kind, external reasoning calls issued so far
    q_pc,            \* position of perform_question_mapping
    q_batch,         \* perform_question_mapping: index i of the current chunk
    all_mappings,    \* perform_question_mapping: rows collected so far
    e_pc,            \* position of perform_emergent_topic_analysis
    emergent_report, \* its return value
    s_pc,            \* position of perform_strategic_analysis
    s_batch,         \* perform_strategic_analysis: index of the current batch
    topics,          \* perform_strategic_analysis: list(topic_verbatims.items())
    analyses,        \* perform_strategic_analysis: rows collected so far
    error,           \* the exception that ended a branch or the run, or "none"
    log,             \* Logger: the entries written for dropped mapping items
    transcript,      \* _extract_from_txt: the lines of the transcript file
    chunker,         \* _chunk_verbatims: the loop's locals and what is left
    sessions,        \* api/server.py: the module's sessions dictionary
    threads,         \* api/server.py: the run_analysis threads started
    replies,         \* api/server.py: the last /progress and /results replies
    cli,             \* main(): args, its local config and how far it has got
    translation_cache, \* AIClient.translation_cache
    tr_calls         \* the calls of translate_text and how far each has got

runvars == <<guide, stage, main_report, objectives, tasks, completed, sem_value,
             issued, q_pc, q_batch, all_mappings, e_pc, emergent_report, s_pc,
             s_batch, topics, analyses, error, log>>

runvars_but_sem == <<guide, stage, main_report, objectives, tasks, completed,
                     issued, q_pc, q_batch, all_mappings, e_pc, emergent_report,
                     s_pc, s_batch, topics, analyses, error, log>>

trvars == <<translation_cache, tr_calls>>
srvvars == <<sessions, threads, replies>>

pipelinevars == <<config, all_verbatims, chunks, ck_pc, runvars, transcript,
                  chunker, trvars>>

vars == <<config, all_verbatims, chunks, ck_pc, guide, stage, main_report,
          objectives, tasks, completed, sem_value, issued, q_pc, q_batch,
          all_mappings, e_pc, emergent_report, s_pc, s_batch, topics, analyses,
          error, log, transcript, chunker, sessions, threads, replies, cli,
          translation_cache, tr_calls>>

----------------------------------------------------------------------------
(* Bounds of the model *)

MaxVerbatims == 3

\* Records a pipeline run extracts at most
MaxRunVerbatims == 3

\* Records a pipeline run extracts at most, in the runs checked for
\* termination
MaxLiveVerbatims == 1

\* Largest max_concurrent_requests
MaxSlots == 2

\* Longest objectives list handed to _process_mapping_result on its own
MaxObjectives == 2

\* Longest key_themes, key_takeaways and supporting_quotes lists
MaxItems == 2

\* Records of an emergent report, and topics assigned to one record, handed
\* to the aggregation on its own
MaxReportVerbatims == 2

MaxAssigned == 2
MaxLines == 3
MaxPerTopic == 2
MaxBucket == 3

----------------------------------------------------------------------------
(* Helpers over sequences *)

Min(a, b) == IF a < b THEN a ELSE b

Max(a, b) == IF a < b THEN b ELSE a

RECURSIVE Flatten(_)
Flatten(ss) == IF ss = <<>> THEN <<>> ELSE Head(ss) \o Flatten(Tail(ss))

SeqsUpTo(S, n) == UNION {[1..k -> S] : k \in 0..n}

----------------------------------------------------------------------------
(* Verbatim records and the token estimator *)

\* A verbatim record {speaker, text, source_file}.  Three texts of different
\* sizes; duplicates of a record are legal in a transcript.
Verbatims ==
    { [speaker |-> "Alice", text |-> "ok",                source_file |-> "t1.txt"],
      [speaker |-> "Bob",   text |-> "it is confusing",   source_file |-> "t1.txt"],
      [speaker |-> "Cara",  text |-> "a very long answer about the design",
                                                          source_file |-> "t2.txt"] }

\* TextProcessor.get_token_count(json.dumps(verbatim)): the tokenizer is an
\* external library; it is deterministic, so it is a fixed table over the
\* serialised records.
get_token_count(v) ==
    CASE v.text = "ok" -> 1
      [] v.text = "it is confusing" -> 2
      [] OTHER -> 4

----------------------------------------------------------------------------
(* VerbatimChunker: QualitativeAnalysisPipeline._chunk_verbatims *)

base_tokens == 1000

\* max_tokens - base_tokens - response_tokens - safety_buffer
max_verbatim_tokens(cfg) ==
    cfg.max_tokens - base_tokens - cfg.response_tokens - cfg.safety_buffer

\* The ceiling every membership decision compares against.
CeilingDropsTarget(cfg) == max_verbatim_tokens(cfg)
Ceiling(cfg) ==
    Min(cfg.target_input_tokens_per_chunk, max_verbatim_tokens(cfg))

\* The loop's state is <<chunks, current_chunk, current_tokens>>.
\* One iteration of "for verbatim in verbatims".
ChunkStepDropsOpen(st, v, cfg) ==
    LET verbatim_tokens == get_token_count(v) IN
    IF st.current_tokens + verbatim_tokens > Ceiling(cfg)
    THEN [chunks |-> st.chunks,
          current_chunk |-> <<v>>,
          current_tokens |-> verbatim_tokens]
    ELSE [chunks |-> st.chunks,
          current_chunk |-> Append(st.current_chunk, v),
          current_tokens |-> st.current_tokens + verbatim_tokens]
ChunkStepNoSplit(st, v, cfg) ==
    [chunks |-> st.chunks,
     current_chunk |-> Append(st.current_chunk, v),
     current_tokens |-> st.current_tokens + get_token_count(v)]
ChunkStepAlwaysCloses(st, v, cfg) ==
    [chunks |-> IF st.current_chunk # <<>>
                THEN Append(st.chunks, st.current_chunk)
                ELSE st.chunks,
     current_chunk |-> <<v>>,
     current_tokens |-> get_token_count(v)]
ChunkStep(st, v, cfg) ==
    LET verbatim_tokens == get_token_count(v) IN
    IF st.current_tokens + verbatim_tokens > Ceiling(cfg)
    THEN [chunks |-> IF st.current_chunk # <<>>
                     THEN Append(st.chunks, st.current_chunk)
                     ELSE st.chunks,
          current_chunk |-> <<v>>,
          current_tokens |-> verbatim_tokens]
    ELSE [chunks |-> st.chunks,
          current_chunk |-> Append(st.current_chunk, v),
          current_tokens |-> st.current_tokens + verbatim_tokens]

RECURSIVE ChunkLoop(_, _, _)
ChunkLoop(st, vs, cfg) ==
    IF vs = <<>> THEN st
    ELSE ChunkLoop(ChunkStep(st, Head(vs), cfg), Tail(vs), cfg)

\* _chunk_verbatims(verbatims): the loop, then the flush of the last chunk.
chunk_verbatims(vs, cfg) ==
    LET st == ChunkLoop([chunks |-> <<>>, current_chunk |-> <<>>,
                         current_tokens |-> 0], vs, cfg)
    IN IF st.current_chunk # <<>>
       THEN Append(st.chunks, st.current_chunk)
       ELSE st.chunks

\* The locals of _chunk_verbatims before its loop, and the verbatims the
\* loop has still to visit.
ChunkerStart(vs) ==
    [chunks |-> <<>>, current_chunk |-> <<>>, current_tokens |-> 0, rest |-> vs]

ChunkerIdle == ChunkerStart(<<>>)

\* Summed token cost of a batch.
RECURSIVE BatchTokens(_)
BatchTokens(b) ==
    IF b = <<>> THEN 0 ELSE get_token_count(Head(b)) + BatchTokens(Tail(b))

----------------------------------------------------------------------------
(* Values of a parsed structured response (json.loads)                    *)

\* A text is the sequence of its characters.
ID0 == <<"I", "D", "-", "0">>
ID1 == <<"I", "D", "-", "1">>
ID2 == <<"I", "D", "-", "2">>
ID9 == <<"I", "D", "-", "9">>
IDx == <<"I", "D", "-", "x">>
IDnodash == <<"I", "D", "1">>
ID00 == <<"I", "D", "-", "0", "0">>
ID10 == <<"I", "D", "-", "1", "0">>

Digits == {"0", "1", "2", "3", "4", "5", "6", "7", "8", "9"}

DigitValue(c) ==
    CASE c = "0" -> 0 [] c = "1" -> 1 [] c = "2" -> 2 [] c = "3" -> 3
      [] c = "4" -> 4 [] c = "5" -> 5 [] c = "6" -> 6 [] c = "7" -> 7
      [] c = "8" -> 8 [] OTHER -> 9

\* str.split(sep) and str.split(sep, 1): the fields between separators.
RECURSIVE SplitFrom(_, _, _, _)
SplitFrom(s, sep, cur, maxsplit) ==
    IF s = <<>> THEN <<cur>>
    ELSE IF Head(s) = sep /\ maxsplit # 0
         THEN <<cur>> \o SplitFrom(Tail(s), sep, <<>>, maxsplit - 1)
         ELSE SplitFrom(Tail(s), sep, Append(cur, Head(s)), maxsplit)

Split(s, sep) == SplitFrom(s, sep, <<>>, -1)

SplitOnce(s, sep) == SplitFrom(s, sep, <<>>, 1)

\* int(text) over the model's alphabet: a non-empty run of digits has a
\* value, anything else raises ValueError.
IsInt(s) == s # <<>> /\ \A i \in 1..Len(s) : s[i] \in Digits

RECURSIVE IntValue(_)
IntValue(s) ==
    IF s = <<>> THEN 0
    ELSE IntValue(SubSeq(s, 1, Len(s) - 1)) * 10 + DigitValue(s[Len(s)])

\* JSON values a response field can hold: a string, a number, null, or the
\* key is absent.
JStr(s) == [type |-> "str", chars |-> s]
JNull == [type |-> "null", chars |-> <<>>]
JNum == [type |-> "int", chars |-> <<>>]
JAbsent == [type |-> "absent", chars |-> <<>>]

\* dict.get(key, default)
DictGet(value, default) == IF value.type = "absent" THEN default ELSE value

\* A failure marker: the exception gather(return_exceptions=True) returns
\* in a request's position.
Failure(exc, req) == [kind |-> "exception", exc |-> exc, for |-> req]

IsException(result) == result.kind = "exception"

NoResult == [kind |-> "none"]

----------------------------------------------------------------------------
(* Discussion objectives *)

Objective(n) == [section |-> "S", question |-> n]

TwoObjectives == <<Objective(1), Objective(2)>>

----------------------------------------------------------------------------
(* QualitativeAnalysisPipeline._process_mapping_result                    *)
(* Returns the rows, the exception that escapes ("none" if none) and      *)
(* whether the drop was logged.                                           *)

MappingRow(obj, verbatim, confidence, result) ==
    [Section |-> obj.section, Question |-> obj.question,
     Verbatim |-> verbatim.text, Speaker |-> verbatim.speaker,
     Confidence |-> confidence, SourceFile |-> verbatim.source_file,
     AnswerFor |-> result.for]

\* "if 0 <= idx < len(objectives)"
InRangeAsListIndex(idx, objs) == -Len(objs) <= idx /\ idx < Len(objs)
InRange(idx, objs) == 0 <= idx /\ idx < Len(objs)

\* objectives[idx]: a list index counts from 0, a negative one from the end.
ListAt(list, idx) == IF idx < 0 THEN list[Len(list) + idx + 1] ELSE list[idx + 1]

process_mapping_result(verbatim, result, objs, rows) ==
    IF result.kind # "dict"
    THEN \* result.get on a list, a string, a number or None
         [rows |-> rows, exc |-> "AttributeError", logged |-> FALSE]
    ELSE
    LET question_id == DictGet(result.best_fit_question_id, JStr(ID0))
        confidence == DictGet(result.confidence, JStr(<<"L", "o", "w">>))
    IN
    IF question_id # JStr(ID0) /\ confidence # JStr(<<"L", "o", "w">>)
    THEN IF question_id.type # "str"
         THEN \* question_id.split on a number or None: not caught by
              \* except (ValueError, IndexError)
              [rows |-> rows, exc |-> "AttributeError", logged |-> FALSE]
         ELSE LET parts == Split(question_id.chars, "-") IN
              IF Len(parts) < 2
              THEN \* IndexError, caught and logged
                   [rows |-> rows, exc |-> "none", logged |-> TRUE]
              ELSE IF ~IsInt(parts[2])
              THEN \* ValueError, caught and logged
                   [rows |-> rows, exc |-> "none", logged |-> TRUE]
              ELSE LET idx == IntValue(parts[2]) - 1 IN
                   IF InRange(idx, objs)
                   THEN [rows |-> Append(rows,
                                    MappingRow(ListAt(objs, idx), verbatim,
                                               confidence, result)),
                         exc |-> "none", logged |-> FALSE]
                   ELSE [rows |-> rows, exc |-> "none", logged |-> FALSE]
    ELSE [rows |-> rows, exc |-> "none", logged |-> FALSE]

----------------------------------------------------------------------------
(* TopicAggregator: the grouping loop of perform_strategic_analysis and   *)
(* _process_emergent_data.                                                *)

TopicKey(topic) == topic.broad_topic \o <<"|">> \o topic.sub_topic

\* topic_verbatims[key].append(entry): buckets keep first-insertion order.
RECURSIVE BucketAddOverwrites(_, _, _)
BucketAddOverwrites(buckets, key, entry) ==
    IF buckets = <<>> THEN << <<key, <<entry>> >> >>
    ELSE IF Head(buckets)[1] = key
         THEN << <<key, <<entry>> >> >> \o Tail(buckets)
         ELSE <<Head(buckets)>> \o BucketAddOverwrites(Tail(buckets), key, entry)

RECURSIVE BucketAdd(_, _, _)
BucketAdd(buckets, key, entry) ==
    IF buckets = <<>> THEN << <<key, <<entry>> >> >>
    ELSE IF Head(buckets)[1] = key
         THEN << <<key, Append(Head(buckets)[2], entry)>> >> \o Tail(buckets)
         ELSE <<Head(buckets)>> \o BucketAdd(Tail(buckets), key, entry)

RECURSIVE AddTopics(_, _, _)
AddTopics(buckets, verbatim, ts) ==
    IF ts = <<>> THEN buckets
    ELSE AddTopics(BucketAdd(buckets, TopicKey(Head(ts)),
                             [text |-> verbatim.text,
                              speaker |-> verbatim.speaker]),
                   verbatim, Tail(ts))

RECURSIVE Aggregate(_, _)
Aggregate(buckets, vts) ==
    IF vts = <<>> THEN buckets
    ELSE Aggregate(AddTopics(buckets, Head(vts), Head(vts).assigned_topics),
                   Tail(vts))

\* list(topic_verbatims.items()) for a report
topic_items(report) == Aggregate(<<>>, report.verbatims_with_topics)

\* _process_emergent_data: one row per (verbatim, assigned topic).
EmergentRowCountVerbatims(vts) == Len(vts)
RECURSIVE EmergentRowCount(_)
EmergentRowCount(vts) ==
    IF vts = <<>> THEN 0
    ELSE Len(Head(vts).assigned_topics) + EmergentRowCount(Tail(vts))

----------------------------------------------------------------------------
(* QualitativeAnalysisPipeline._process_strategic_result                  *)

At(list, j) == IF j <= Len(list) THEN list[j] ELSE <<>>

StrategicRowBaseOnFirst(broad_topic, sub_topic, result, verbatim_count, j) ==
    [BroadTopic |-> broad_topic, SubTopic |-> sub_topic,
     KeyInsights |-> IF j = 1 THEN result.key_insights ELSE <<>>,
     VerbatimCount |-> IF j = 1 THEN verbatim_count ELSE 0,
     Theme |-> At(result.key_themes, j),
     Takeaway |-> At(result.key_takeaways, j),
     SupportingQuote |-> At(result.supporting_quotes, j),
     AnswerFor |-> result.for]
StrategicRow(broad_topic, sub_topic, result, verbatim_count, j) ==
    [BroadTopic |-> broad_topic, SubTopic |-> sub_topic,
     KeyInsights |-> result.key_insights, VerbatimCount |-> verbatim_count,
     Theme |-> At(result.key_themes, j),
     Takeaway |-> At(result.key_takeaways, j),
     SupportingQuote |-> At(result.supporting_quotes, j),
     AnswerFor |-> result.for]

process_strategic_result_first_row(broad_topic, sub_topic, result, n, rows) ==
    IF result.kind # "dict" THEN rows
    ELSE rows \o <<StrategicRow(broad_topic, sub_topic, result, n, 1)>>
process_strategic_result(broad_topic, sub_topic, result, verbatim_count, rows) ==
    IF result.kind # "dict" THEN rows
    ELSE LET max_items == Max(Len(result.key_themes),
                              Max(Len(result.key_takeaways),
                                  Len(result.supporting_quotes)))
         IN rows
            \o <<StrategicRow(broad_topic, sub_topic, result, verbatim_count, 1)>>
            \o [j \in 1..(max_items - 1) |->
                  StrategicRow(broad_topic, sub_topic, result, verbatim_count,
                               j + 1)]

----------------------------------------------------------------------------
(* Requests, tasks and what the reasoning service can answer              *)

Kinds == {"objectives", "mapping", "emergent", "strategic"}

\* A task created by asyncio.gather (or a coroutine awaited inline) for one
\* request: created, inflight (inside "async with self.semaphore"), done,
\* or cancelled when the event loop shuts down.
Task(req) == [req |-> req, status |-> "created", result |-> NoResult]

High == JStr(<<"H", "i", "g", "h">>)

\* AIClient.map_verbatim_to_question: json.loads of the response text.
MappingResponses(req) ==
    { [kind |-> "dict", for |-> req,
       best_fit_question_id |-> JStr(ID1), confidence |-> High],
      [kind |-> "dict", for |-> req,
       best_fit_question_id |-> JStr(ID0), confidence |-> High],
      [kind |-> "dict", for |-> req,
       best_fit_question_id |-> JNull, confidence |-> High] }

TopicA == [broad_topic |-> <<"U", "X">>, sub_topic |-> <<"n", "a", "v">>]
TopicB == [broad_topic |-> <<"U", "X">>, sub_topic |-> <<"d", "o", "c">>]

WithTopics(chunk, ts) ==
    [i \in 1..Len(chunk) |->
        [text |-> chunk[i].text, speaker |-> chunk[i].speaker,
         source_file |-> chunk[i].source_file, assigned_topics |-> ts]]

\* AIClient.analyze_emergent_topics: the report for one chunk.
EmergentResponses(req) ==
    { [kind |-> "dict", for |-> req, verbatims_with_topics |-> <<>>],
      [kind |-> "dict", for |-> req,
       verbatims_with_topics |-> WithTopics(req, <<>>)],
      [kind |-> "dict", for |-> req,
       verbatims_with_topics |-> WithTopics(req, <<TopicA, TopicB>>)] }

\* AIClient.analyze_topic_strategically
StrategicResponses(req) ==
    { [kind |-> "dict", for |-> req, key_insights |-> <<"i">>,
       key_themes |-> << <<"A">>, <<"B">> >>,
       key_takeaways |-> << <<"X">> >>,
       supporting_quotes |-> <<>>],
      [kind |-> "list", for |-> req] }

\* AIClient.extract_guide_objectives
ObjectivesResponses(req) ==
    { [kind |-> "dict", for |-> req, objectives |-> TwoObjectives],
      [kind |-> "dict", for |-> req, objectives |-> <<>>] }

Responses(k, req) ==
    CASE k = "mapping" -> MappingResponses(req)
      [] k = "emergent" -> EmergentResponses(req)
      [] k = "strategic" -> StrategicResponses(req)
      [] OTHER -> ObjectivesResponses(req)

\* What one ai_client method can end with once its external call settles:
\* the call raised, the response text did not parse, or a parsed value.
Outcomes(k, req) ==
    {Failure("ServiceError", req), Failure("JSONDecodeError", req)}
        \cup Responses(k, req)

\* json.loads(DummyMessage.content): the dry-run sentinel is not JSON.
DryRunOutcomeParses(k, req) == CHOOSE r \in Responses(k, req) : TRUE
DryRunOutcome(k, req) == Failure("JSONDecodeError", req)

----------------------------------------------------------------------------
(* RequestGate: AIClient.call_gpt5_nano                                   *)

Alive == main_report = "none"

InFlight(k) == {i \in 1..Len(tasks[k]) : tasks[k][i].status = "inflight"}

InFlightCount ==
    Cardinality(InFlight("objectives")) + Cardinality(InFlight("mapping"))
        + Cardinality(InFlight("emergent")) + Cardinality(InFlight("strategic"))

\* asyncio.Semaphore.acquire returns only while a slot is free.
SlotFreeUnguarded == TRUE
SlotFreeKeepsOne == sem_value > 1
SlotFree == sem_value > 0

\* Leaving "async with self.semaphore", by return or by exception.
ReleaseLeaks(value) == value
Release(value) == value + 1

\* The event loop runs ready callbacks first in, first out: the two branch
\* coroutines handed to gather in run_pipeline take their first step before
\* any task they create takes its own.
\* _chunk_verbatims is a plain function called before the emergent branch's
\* first await, so that first step ends only when chunking has ended.
BranchesStartedChunking == q_pc # "init" /\ e_pc # "init"
BranchesStarted == q_pc # "init" /\ e_pc \notin {"init", "chunking"}

Runnable(k, i) ==
    /\ i \in 1..Len(tasks[k])
    /\ tasks[k][i].status = "created"
    /\ BranchesStarted

\* call_gpt5_nano, execute_api_calls on: enter "async with self.semaphore"
\* and issue the external call.
Acquire(k, i) ==
    /\ Runnable(k, i)
    /\ config.execute_api_calls
    /\ SlotFree
    /\ sem_value' = sem_value - 1
    /\ tasks' = [tasks EXCEPT ![k][i].status = "inflight"]
    /\ issued' = [issued EXCEPT ![k] = @ + 1]
    /\ UNCHANGED trvars
    /\ UNCHANGED transcript
    /\ UNCHANGED chunker
    /\ UNCHANGED srvvars
    /\ UNCHANGED cli
    /\ UNCHANGED log
    /\ UNCHANGED <<config, all_verbatims, chunks, ck_pc, guide, stage,
                   main_report, objectives, completed, q_pc, q_batch,
                   all_mappings, e_pc, emergent_report, s_pc, s_batch, topics,
                   analyses, error>>

\* A call that would be made again after a failure.
SettleRetriesFailure(k, i) ==
    /\ i \in 1..Len(tasks[k])
    /\ tasks[k][i].status = "inflight"
    /\ \E out \in Outcomes(k, tasks[k][i].req) :
          tasks' = [tasks EXCEPT ![k][i].status =
                                     IF IsException(out) THEN "created"
                                     ELSE "done",
                                 ![k][i].result = out]
    /\ sem_value' = Release(sem_value)
    /\ completed' = [completed EXCEPT ![k] = Append(@, i)]
    /\ UNCHANGED trvars
    /\ UNCHANGED transcript
    /\ UNCHANGED chunker
    /\ UNCHANGED srvvars
    /\ UNCHANGED cli
    /\ UNCHANGED log
    /\ UNCHANGED <<config, all_verbatims, chunks, ck_pc, guide, stage,
                   main_report, objectives, issued, q_pc, q_batch,
                   all_mappings, e_pc, emergent_report, s_pc, s_batch, topics,
                   analyses, error>>

\* The external call returns or raises; the slot is released on the way out
\* of the "async with", and the ai_client method parses the response.
Settle(k, i) ==
    /\ i \in 1..Len(tasks[k])
    /\ tasks[k][i].status = "inflight"
    /\ \E out \in Outcomes(k, tasks[k][i].req) :
          tasks' = [tasks EXCEPT ![k][i].status = "done",
                                 ![k][i].result = out]
    /\ sem_value' = Release(sem_value)
    /\ completed' = [completed EXCEPT ![k] = Append(@, i)]
    /\ UNCHANGED trvars
    /\ UNCHANGED transcript
    /\ UNCHANGED chunker
    /\ UNCHANGED srvvars
    /\ UNCHANGED cli
    /\ UNCHANGED log
    /\ UNCHANGED <<config, all_verbatims, chunks, ck_pc, guide, stage,
                   main_report, objectives, issued, q_pc, q_batch,
                   all_mappings, e_pc, emergent_report, s_pc, s_batch, topics,
                   analyses, error>>

\* A dry-run call that would pass through the semaphore like a real one.
DryRunCallTakesSlot(k, i) ==
    /\ Runnable(k, i)
    /\ ~config.execute_api_calls
    /\ tasks' = [tasks EXCEPT ![k][i].status = "done",
                              ![k][i].result = DryRunOutcome(k, tasks[k][i].req)]
    /\ completed' = [completed EXCEPT ![k] = Append(@, i)]
    /\ sem_value' = sem_value - 1
    /\ UNCHANGED trvars
    /\ UNCHANGED transcript
    /\ UNCHANGED chunker
    /\ UNCHANGED srvvars
    /\ UNCHANGED cli
    /\ UNCHANGED log
    /\ UNCHANGED <<config, all_verbatims, chunks, ck_pc, guide, stage,
                   main_report, objectives, issued, q_pc, q_batch,
                   all_mappings, e_pc, emergent_report, s_pc, s_batch, topics,
                   analyses, error>>

\* call_gpt5_nano, execute_api_calls off: DummyResponse at once, no slot
\* taken, no external call; the ai_client method then parses the sentinel.
DryRunCall(k, i) ==
    /\ Runnable(k, i)
    /\ ~config.execute_api_calls
    /\ tasks' = [tasks EXCEPT ![k][i].status = "done",
                              ![k][i].result = DryRunOutcome(k, tasks[k][i].req)]
    /\ completed' = [completed EXCEPT ![k] = Append(@, i)]
    /\ UNCHANGED trvars
    /\ UNCHANGED transcript
    /\ UNCHANGED chunker
    /\ UNCHANGED srvvars
    /\ UNCHANGED cli
    /\ UNCHANGED log
    /\ UNCHANGED <<config, all_verbatims, chunks, ck_pc, guide, stage,
                   main_report, objectives, sem_value, issued, q_pc, q_batch,
                   all_mappings, e_pc, emergent_report, s_pc, s_batch, topics,
                   analyses, error>>

----------------------------------------------------------------------------
(* RequestGate, translation sub-contract: AIClient.translate_text         *)

\* Texts are sequences of characters; "U4F60" and "U597D" stand for two
\* CJK characters in the range of config.patterns.chinese_chars.
ChineseChars == {"U4F60", "U597D"}

Texts ==
    { <<"h", "i">>,
      <<"U4F60", "U597D">>,
      <<"o", "k", "U597D">> }

\* TextProcessor.is_chinese: chinese_pattern.search(text)
is_chinese_nonempty(text) == text # <<>>
is_chinese(text) == \E i \in 1..Len(text) : text[i] \in ChineseChars

\* str.strip(): leading and trailing blanks removed.
RECURSIVE LStrip(_)
LStrip(s) == IF s # <<>> /\ Head(s) = " " THEN LStrip(Tail(s)) ELSE s

RECURSIVE RStrip(_)
RStrip(s) ==
    IF s # <<>> /\ s[Len(s)] = " " THEN RStrip(SubSeq(s, 1, Len(s) - 1)) ELSE s

Strip(s) == LStrip(RStrip(s))

\* response.choices[0].message.content the service can return for a
\* translation request.
Contents ==
    { <<"h", "e", "l", "l", "o">>,
      <<" ", "h", "e", "l", "l", "o", " ">>,
      <<"t", "h", "x">> }

\* DummyMessage.content
DummyContent == <<"[DRY-RUN MODE] This is a simulated response.">>

\* The two callers of translate_text.
Callers == {1, 2}

NewCall(text) ==
    [text |-> text, status |-> "new", output |-> <<>>, external |-> 0,
     hit |-> FALSE, failed |-> FALSE, prior |-> {}]

Returned == {c \in Callers : tr_calls[c].status = "returned"}

\* self.translation_cache[text] = value
CachePutForgets(cache, text, value) == cache
CachePut(cache, text, value) ==
    [t \in DOMAIN cache \cup {text} |-> IF t = text THEN value ELSE cache[t]]

\* "except Exception as e: ...; return text"
translate_failed_reraises(call) ==
    [call EXCEPT !.status = "raised", !.failed = TRUE]
translate_failed(call) ==
    [call EXCEPT !.status = "returned", !.output = call.text, !.failed = TRUE]

\* translate_text up to its reasoning call: a cache hit, a text that needs
\* no translation, the dry-run sentinel, or on to call_gpt5_nano.
TranslateEnter(c) ==
    /\ tr_calls[c].status = "new"
    /\ LET call == [tr_calls[c] EXCEPT !.prior = Returned]
           text == call.text
       IN
       IF text \in DOMAIN translation_cache
       THEN /\ tr_calls' = [tr_calls EXCEPT ![c] =
                  [call EXCEPT !.status = "returned", !.hit = TRUE,
                               !.output = translation_cache[text]]]
            /\ UNCHANGED translation_cache
       ELSE IF ~is_chinese(text)
       THEN /\ translation_cache' = CachePut(translation_cache, text, text)
            /\ tr_calls' = [tr_calls EXCEPT ![c] =
                  [call EXCEPT !.status = "returned", !.output = text]]
       ELSE IF ~config.execute_api_calls
       THEN /\ translation_cache' =
                  CachePut(translation_cache, text, Strip(DummyContent))
            /\ tr_calls' = [tr_calls EXCEPT ![c] =
                  [call EXCEPT !.status = "returned",
                               !.output = Strip(DummyContent)]]
       ELSE /\ tr_calls' = [tr_calls EXCEPT ![c] =
                  [call EXCEPT !.status = "waiting"]]
            /\ UNCHANGED translation_cache
    /\ UNCHANGED sem_value
    /\ UNCHANGED <<config, all_verbatims, chunks, ck_pc>>
    /\ UNCHANGED runvars_but_sem
    /\ UNCHANGED transcript
    /\ UNCHANGED chunker
    /\ UNCHANGED srvvars
    /\ UNCHANGED cli

\* call_gpt5_nano: enter "async with self.semaphore", issue the call.
TranslateAcquire(c) ==
    /\ tr_calls[c].status = "waiting"
    /\ SlotFree
    /\ sem_value' = sem_value - 1
    /\ tr_calls' = [tr_calls EXCEPT ![c].status = "inflight",
                                    ![c].external = @ + 1]
    /\ UNCHANGED translation_cache
    /\ UNCHANGED <<config, all_verbatims, chunks, ck_pc>>
    /\ UNCHANGED runvars_but_sem
    /\ UNCHANGED transcript
    /\ UNCHANGED chunker
    /\ UNCHANGED srvvars
    /\ UNCHANGED cli

\* "except Exception as e: self.logger.error(...); return text": the cache
\* is not written.
cache_after_failure_memoizes(cache, text) == CachePut(cache, text, text)
cache_after_failure(cache, text) == cache

\* The call returns or raises; translate_text memoizes the stripped
\* translation, or falls back to the original text.
TranslateSettle(c) ==
    /\ tr_calls[c].status = "inflight"
    /\ sem_value' = Release(sem_value)
    /\ \/ /\ tr_calls' = [tr_calls EXCEPT ![c] = translate_failed(@)]
          /\ translation_cache' =
                cache_after_failure(translation_cache, tr_calls[c].text)
       \/ \E content \in Contents :
             /\ translation_cache' =
                   CachePut(translation_cache, tr_calls[c].text, Strip(content))
             /\ tr_calls' = [tr_calls EXCEPT ![c].status = "returned",
                                             ![c].output = Strip(content)]
    /\ UNCHANGED <<config, all_verbatims, chunks, ck_pc>>
    /\ UNCHANGED runvars_but_sem
    /\ UNCHANGED transcript
    /\ UNCHANGED chunker
    /\ UNCHANGED srvvars
    /\ UNCHANGED cli

----------------------------------------------------------------------------
(* BatchDispatcher: asyncio.gather with return_exceptions=True    *)

Settled(k) == \A i \in 1..Len(tasks[k]) : tasks[k][i].status = "done"

\* The awaiting coroutine resumes once every task of the batch has settled.
gather_done_first_exception(k) ==
    \/ Settled(k)
    \/ \E i \in 1..Len(tasks[k]) :
          tasks[k][i].status = "done" /\ IsException(tasks[k][i].result)
gather_done(k) == Settled(k)

\* The result list is in the order of the awaitables passed in.
gather_results_completion_order(k) ==
    [j \in 1..Len(completed[k]) |-> tasks[k][completed[k][j]].result]
gather_results(k) ==
    [i \in 1..Len(tasks[k]) |-> tasks[k][i].result]

NewTasks(reqs) == [i \in 1..Len(reqs) |-> Task(reqs[i])]

\* asyncio.run's shutdown after main() ends: every unfinished task is
\* cancelled, and a cancelled call leaves its "async with" (slot released).
CancelNone(ts) == ts
CancelAll(ts) ==
    [k \in Kinds |->
        [i \in 1..Len(ts[k]) |->
            IF ts[k][i].status = "done" THEN ts[k][i]
            ELSE [ts[k][i] EXCEPT !.status = "cancelled"]]]

----------------------------------------------------------------------------
(* PipelineOrchestrator: QualitativeAnalysisPipeline.run_pipeline and     *)
(* the three analysis stages                                              *)

\* "except Exception: ... raise" in run_pipeline, then main()'s handler:
\* the failure is reported and the process exits, cancelling what is left.
RunFails(exc) ==
    /\ stage' = "Failed"
    /\ main_report' = "failure"
    /\ error' = exc
    /\ tasks' = CancelAll(tasks)
    /\ sem_value' = sem_value + InFlightCount

\* run_pipeline starts: extract_guide_objectives up to its reasoning call,
\* or up to the FileNotFoundError of find_discussion_guide.
StartRun ==
    /\ stage = "Idle"
    /\ stage' = "ExtractingObjectives"
    /\ IF guide = "found"
       THEN tasks' = [tasks EXCEPT !["objectives"] = NewTasks(<<"guide">>)]
       ELSE UNCHANGED tasks
    /\ UNCHANGED trvars
    /\ UNCHANGED transcript
    /\ UNCHANGED chunker
    /\ UNCHANGED srvvars
    /\ UNCHANGED cli
    /\ UNCHANGED log
    /\ UNCHANGED <<config, all_verbatims, chunks, ck_pc, guide, main_report,
                   objectives, completed, sem_value, issued, q_pc, q_batch,
                   all_mappings, e_pc, emergent_report, s_pc, s_batch, topics,
                   analyses, error>>

\* "except FileNotFoundError: ... return {"objectives": []}"
NoGuideObjectivesDefault == TwoObjectives
NoGuideObjectives == <<>>

\* An extract_guide_objectives that would degrade on every failure.
ObjectivesDoneDegrades ==
    /\ stage = "ExtractingObjectives"
    /\ Alive
    /\ gather_done("objectives")
    /\ IF guide # "found"
       THEN /\ objectives' = NoGuideObjectives
            /\ stage' = "ExtractingVerbatims"
            /\ UNCHANGED <<main_report, error, tasks, sem_value>>
       ELSE LET result == tasks["objectives"][1].result IN
            IF IsException(result)
            THEN /\ objectives' = <<>>
                 /\ stage' = "ExtractingVerbatims"
                 /\ UNCHANGED <<main_report, error, tasks, sem_value>>
            ELSE /\ objectives' = result.objectives
                 /\ stage' = "ExtractingVerbatims"
                 /\ UNCHANGED <<main_report, error, tasks, sem_value>>
    /\ UNCHANGED trvars
    /\ UNCHANGED transcript
    /\ UNCHANGED chunker
    /\ UNCHANGED srvvars
    /\ UNCHANGED cli
    /\ UNCHANGED log
    /\ UNCHANGED <<config, all_verbatims, chunks, ck_pc, guide, completed,
                   issued, q_pc, q_batch, all_mappings, e_pc, emergent_report,
                   s_pc, s_batch, topics, analyses>>

\* extract_guide_objectives resumes with the reasoning call's outcome; a
\* missing guide (FileNotFoundError) yields {"objectives": []}.
ObjectivesDone ==
    /\ stage = "ExtractingObjectives"
    /\ Alive
    /\ gather_done("objectives")
    /\ IF guide # "found"
       THEN /\ objectives' = NoGuideObjectives
            /\ stage' = "ExtractingVerbatims"
            /\ UNCHANGED <<main_report, error, tasks, sem_value>>
       ELSE LET result == tasks["objectives"][1].result IN
            IF IsException(result)
            THEN /\ RunFails(result.exc)
                 /\ UNCHANGED objectives
            ELSE /\ objectives' = result.objectives
                 /\ stage' = "ExtractingVerbatims"
                 /\ UNCHANGED <<main_report, error, tasks, sem_value>>
    /\ UNCHANGED trvars
    /\ UNCHANGED transcript
    /\ UNCHANGED chunker
    /\ UNCHANGED srvvars
    /\ UNCHANGED cli
    /\ UNCHANGED log
    /\ UNCHANGED <<config, all_verbatims, chunks, ck_pc, guide, completed,
                   issued, q_pc, q_batch, all_mappings, e_pc, emergent_report,
                   s_pc, s_batch, topics, analyses>>

\* Transcripts the run can find: up to MaxRunVerbatims lines of two
\* speakers taking turns, a short answer and a long one.
RunTranscript(n) ==
    [i \in 1..n |->
        IF i % 2 = 1
        THEN [speaker |-> "Alice", text |-> "ok", source_file |-> "t1.txt"]
        ELSE [speaker |-> "Cara", text |-> "a very long answer about the design",
              source_file |-> "t2.txt"]]

RunInputs == {RunTranscript(n) : n \in 0..MaxRunVerbatims}

LiveInputs == {RunTranscript(n) : n \in 0..MaxLiveVerbatims}

\* extract_all_verbatims, then "if not all_verbatims: ... return"; main()
\* prints its success message after run_pipeline returns.
EmptyRunEnds ==
    /\ stage' = "ReturnedEarly"
    /\ main_report' = "success"
ExtractVerbatimsFrom(inputs) ==
    /\ stage = "ExtractingVerbatims"
    /\ Alive
    /\ \E vs \in inputs :
          /\ all_verbatims' = vs
          /\ IF vs = <<>>
             THEN /\ EmptyRunEnds
                  /\ UNCHANGED <<q_pc, e_pc>>
             ELSE /\ stage' = "ParallelAnalysis"
                  /\ q_pc' = "init"
                  /\ e_pc' = "init"
                  /\ UNCHANGED main_report
    /\ UNCHANGED trvars
    /\ UNCHANGED transcript
    /\ UNCHANGED chunker
    /\ UNCHANGED srvvars
    /\ UNCHANGED cli
    /\ UNCHANGED log
    /\ UNCHANGED <<config, chunks, ck_pc, guide, objectives, tasks, completed,
                   sem_value, issued, q_batch, all_mappings, emergent_report,
                   s_pc, s_batch, topics, analyses, error>>

\* perform_question_mapping: chunks[n] of verbatims[i:i+batch_size]
SliceBackwards(list, n, size) ==
    LET m == ((Len(list) + size - 1) \div size) - n + 1 IN
    SubSeq(list, (m - 1) * size + 1, Min(m * size, Len(list)))
Slice(list, n, size) ==
    SubSeq(list, (n - 1) * size + 1, Min(n * size, Len(list)))

SliceCount(list, size) == (Len(list) + size - 1) \div size

\* perform_question_mapping up to its first gather.
QStart ==
    /\ stage = "ParallelAnalysis"
    /\ Alive
    /\ q_pc = "init"
    /\ IF objectives = <<>>
       THEN /\ q_pc' = "returned"
            /\ UNCHANGED <<q_batch, tasks>>
       ELSE /\ q_pc' = "gather"
            /\ q_batch' = 1
            /\ tasks' = [tasks EXCEPT !["mapping"] =
                  NewTasks(Slice(all_verbatims, 1,
                                 config.verbatim_batch_size))]
    /\ UNCHANGED trvars
    /\ UNCHANGED transcript
    /\ UNCHANGED chunker
    /\ UNCHANGED srvvars
    /\ UNCHANGED cli
    /\ UNCHANGED log
    /\ UNCHANGED <<config, all_verbatims, chunks, ck_pc, guide, stage,
                   main_report, objectives, completed, sem_value, issued,
                   all_mappings, e_pc, emergent_report, s_pc, s_batch, topics,
                   analyses, error>>

\* perform_emergent_topic_analysis up to its gather: chunk, one request per
\* chunk.
EStart ==
    /\ stage = "ParallelAnalysis"
    /\ Alive
    /\ e_pc = "init"
    /\ q_pc # "init"
    /\ chunks' = chunk_verbatims(all_verbatims, config)
    /\ tasks' = [tasks EXCEPT !["emergent"] = NewTasks(chunks')]
    /\ e_pc' = "gather"
    /\ UNCHANGED trvars
    /\ UNCHANGED transcript
    /\ UNCHANGED chunker
    /\ UNCHANGED srvvars
    /\ UNCHANGED cli
    /\ UNCHANGED log
    /\ UNCHANGED <<config, all_verbatims, ck_pc, guide, stage, main_report,
                   objectives, completed, sem_value, issued, q_pc, q_batch,
                   all_mappings, emergent_report, s_pc, s_batch, topics,
                   analyses, error>>

\* "for verbatim, result in zip(chunk, results)": a failure marker is logged
\* and skipped, any other result goes to _process_mapping_result; an
\* exception escaping it ends the loop.
\* self.logger.error(...) about one verbatim
LogEntry(verbatim) == [level |-> "error", about |-> verbatim]

RECURSIVE MappingLoop(_, _, _, _)
MappingLoop(chunk, results, objs, acc) ==
    IF chunk = <<>> \/ results = <<>> \/ acc.exc # "none" THEN acc
    ELSE IF IsException(Head(results))
         THEN MappingLoop(Tail(chunk), Tail(results), objs,
                          [acc EXCEPT !.log = Append(@, LogEntry(Head(chunk)))])
         ELSE LET r == process_mapping_result(Head(chunk), Head(results),
                                              objs, acc.rows)
              IN MappingLoop(Tail(chunk), Tail(results), objs,
                     [rows |-> r.rows, exc |-> r.exc,
                      log |-> IF r.logged
                              THEN Append(acc.log, LogEntry(Head(chunk)))
                              ELSE acc.log])

\* perform_question_mapping resumes after a batch's gather.
QProcessBatch ==
    /\ stage = "ParallelAnalysis"
    /\ Alive
    /\ q_pc = "gather"
    /\ gather_done("mapping")
    /\ LET chunk == Slice(all_verbatims, q_batch, config.verbatim_batch_size)
           acc == MappingLoop(chunk, gather_results("mapping"), objectives,
                              [rows |-> all_mappings, exc |-> "none",
                               log |-> log])
       IN /\ all_mappings' = acc.rows
          /\ log' = acc.log
          /\ IF acc.exc # "none"
             THEN /\ q_pc' = "raised"
                  /\ RunFails(acc.exc)
                  /\ UNCHANGED <<q_batch, completed>>
             ELSE IF q_batch < SliceCount(all_verbatims,
                                          config.verbatim_batch_size)
             THEN /\ q_batch' = q_batch + 1
                  /\ tasks' = [tasks EXCEPT !["mapping"] =
                        NewTasks(Slice(all_verbatims, q_batch + 1,
                                       config.verbatim_batch_size))]
                  /\ completed' = [completed EXCEPT !["mapping"] = <<>>]
                  /\ UNCHANGED <<q_pc, stage, main_report, error, sem_value>>
             ELSE /\ q_pc' = "returned"
                  /\ UNCHANGED <<q_batch, tasks, completed, stage, main_report,
                                 error, sem_value>>
    /\ UNCHANGED trvars
    /\ UNCHANGED transcript
    /\ UNCHANGED chunker
    /\ UNCHANGED srvvars
    /\ UNCHANGED cli
    /\ UNCHANGED <<config, all_verbatims, chunks, ck_pc, guide, objectives,
                   issued, e_pc, emergent_report, s_pc, s_batch, topics,
                   analyses>>

\* valid_results = [r for r in chunk_results if not isinstance(r, Exception)]
valid_results_first_only(results) ==
    IF results = <<>> \/ IsException(results[1]) THEN <<>> ELSE <<results[1]>>
valid_results_latest_first(results) ==
    LET valid == SelectSeq(results, LAMBDA r : ~IsException(r)) IN
    [i \in 1..Len(valid) |-> valid[Len(valid) + 1 - i]]
valid_results(results) == SelectSeq(results, LAMBDA r : ~IsException(r))

\* perform_emergent_topic_analysis resumes after its gather.
EProcess ==
    /\ stage = "ParallelAnalysis"
    /\ Alive
    /\ e_pc = "gather"
    /\ gather_done("emergent")
    /\ LET valid == valid_results(gather_results("emergent")) IN
       IF valid = <<>>
       THEN /\ e_pc' = "raised"
            /\ RunFails("NoValidResults")
            /\ UNCHANGED emergent_report
       ELSE /\ e_pc' = "returned"
            /\ emergent_report' = valid[1]
            /\ UNCHANGED <<stage, main_report, error, tasks, sem_value>>
    /\ UNCHANGED trvars
    /\ UNCHANGED transcript
    /\ UNCHANGED chunker
    /\ UNCHANGED srvvars
    /\ UNCHANGED cli
    /\ UNCHANGED log
    /\ UNCHANGED <<config, all_verbatims, chunks, ck_pc, guide, objectives,
                   completed, issued, q_pc, q_batch, all_mappings, s_pc,
                   s_batch, topics, analyses>>

\* The requests of strategic batch n: (broad_topic, sub_topic, verbatims)
\* after topic_key.split('|', 1).
StrategicRequest(item) ==
    LET parts == SplitOnce(item[1], "|") IN
    [broad_topic |-> parts[1], sub_topic |-> parts[2], verbatims |-> item[2]]

StrategicBatch(items, n, size) ==
    LET batch == Slice(items, n, size) IN
    [i \in 1..Len(batch) |-> StrategicRequest(batch[i])]

\* run_pipeline resumes after gather(question_task, emergent_task), once
\* both awaitables have returned: _process_emergent_data, then
\* perform_strategic_analysis up to its first gather if the emergent table
\* has rows.
BranchesJoinedEither == e_pc = "returned"
BranchesJoined == q_pc = "returned" /\ e_pc = "returned"

Join ==
    /\ stage = "ParallelAnalysis"
    /\ Alive
    /\ BranchesJoined
    /\ IF EmergentRowCount(emergent_report.verbatims_with_topics) = 0
       THEN /\ stage' = "Completed"
            /\ main_report' = "success"
            /\ UNCHANGED <<tasks, completed, s_pc, s_batch, topics>>
       ELSE /\ stage' = "StrategicAnalysis"
            /\ topics' = topic_items(emergent_report)
            /\ s_pc' = "gather"
            /\ s_batch' = 1
            /\ tasks' = [tasks EXCEPT !["strategic"] =
                  NewTasks(StrategicBatch(topics', 1,
                               config.strategic_analysis_batch_size))]
            /\ completed' = [completed EXCEPT !["strategic"] = <<>>]
            /\ UNCHANGED main_report
    /\ UNCHANGED trvars
    /\ UNCHANGED transcript
    /\ UNCHANGED chunker
    /\ UNCHANGED srvvars
    /\ UNCHANGED cli
    /\ UNCHANGED log
    /\ UNCHANGED <<config, all_verbatims, chunks, ck_pc, guide, objectives,
                   sem_value, issued, q_pc, q_batch, all_mappings, e_pc,
                   emergent_report, analyses, error>>

\* "for (topic_key, topic_verbatims_list), result in zip(batch, results)"
RECURSIVE StrategicLoop(_, _, _)
StrategicLoop(batch, results, rows) ==
    IF batch = <<>> \/ results = <<>> THEN rows
    ELSE IF IsException(Head(results))
         THEN StrategicLoop(Tail(batch), Tail(results), rows)
         ELSE StrategicLoop(Tail(batch), Tail(results),
                  process_strategic_result(Head(batch).broad_topic,
                                           Head(batch).sub_topic,
                                           Head(results),
                                           Len(Head(batch).verbatims), rows))

\* perform_strategic_analysis resumes after a batch's gather; after the
\* last batch run_pipeline logs completion and main() reports success.
SProcessBatch ==
    /\ stage = "StrategicAnalysis"
    /\ Alive
    /\ s_pc = "gather"
    /\ gather_done("strategic")
    /\ analyses' = StrategicLoop(
           StrategicBatch(topics, s_batch,
                          config.strategic_analysis_batch_size),
           gather_results("strategic"), analyses)
    /\ IF s_batch < SliceCount(topics, config.strategic_analysis_batch_size)
       THEN /\ s_batch' = s_batch + 1
            /\ tasks' = [tasks EXCEPT !["strategic"] =
                  NewTasks(StrategicBatch(topics, s_batch + 1,
                               config.strategic_analysis_batch_size))]
            /\ completed' = [completed EXCEPT !["strategic"] = <<>>]
            /\ UNCHANGED <<s_pc, stage, main_report>>
       ELSE /\ s_pc' = "returned"
            /\ stage' = "Completed"
            /\ main_report' = "success"
            /\ UNCHANGED <<s_batch, tasks, completed>>
    /\ UNCHANGED trvars
    /\ UNCHANGED transcript
    /\ UNCHANGED chunker
    /\ UNCHANGED srvvars
    /\ UNCHANGED cli
    /\ UNCHANGED log
    /\ UNCHANGED <<config, all_verbatims, chunks, ck_pc, guide, objectives,
                   sem_value, issued, q_pc, q_batch, all_mappings, e_pc,
                   emergent_report, topics, error>>

ExtractVerbatims == ExtractVerbatimsFrom(RunInputs)

ExtractVerbatimsLive == ExtractVerbatimsFrom(LiveInputs)

----------------------------------------------------------------------------
(* The API server of src/src/api/server.py: the sessions dictionary, the  *)
(* request handlers and the run_analysis threads that /analyze starts.    *)
(* One upload has been made, so one session id is in uploads.             *)

\* The loop of run_analysis is "for i in range(101)"; the model lets i run
\* over 0..LastProgress.
LastProgress == 2

\* /analyze requests made for the session; each starts a thread.
MaxThreads == 2

\* The session id that /upload returned.
SessionId == "s1"

\* d[key] = value on a Python dict.
SetItem(d, key, value) ==
    [k \in DOMAIN d \cup {key} |-> IF k = key THEN value ELSE d[k]]

\* d.get(key, default)
Get(d, key, default) == IF key \in DOMAIN d THEN d[key] ELSE default

\* sessions[session_id][key] = value
SetSessionItem(key, value) ==
    SetItem(sessions, SessionId, SetItem(sessions[SessionId], key, value))

get_step_name(progress) ==
    IF progress < 25 THEN "Preprocessing"
    ELSE IF progress < 50 THEN "Theme Extraction"
    ELSE IF progress < 75 THEN "Analysis"
    ELSE "Report Generation"

generate_mock_results == [kind |-> "results"]

InvalidSession == [code |-> 400, error |-> "Invalid session"]

NoReply == [code |-> 0]

\* sessions = {} at import; no request answered yet, no thread started.
ServerIdle ==
    /\ sessions = <<>>
    /\ threads = <<>>
    /\ replies = [configure |-> NoReply, analyze |-> NoReply,
                  progress |-> NoReply, results |-> NoReply]

\* POST /configure: the session's dictionary is replaced by a new one.
configure_analysis ==
    /\ sessions' = SetItem(sessions, SessionId,
                           [config |-> "standard", status |-> "configured",
                            timestamp |-> "now"])
    /\ replies' = [replies EXCEPT !.configure =
                      [code |-> 200, status |-> "configured"]]
    /\ UNCHANGED threads
    /\ UNCHANGED pipelinevars
    /\ UNCHANGED cli

\* POST /analyze: 400 for an unknown session, else a new thread is started;
\* nothing looks at the session's status or at the threads already running.
start_analysis ==
    /\ Len(threads) < MaxThreads
    /\ IF SessionId \notin DOMAIN sessions
       THEN /\ replies' = [replies EXCEPT !.analyze = InvalidSession]
            /\ UNCHANGED threads
       ELSE /\ threads' = Append(threads, [pc |-> "status", i |-> 0])
            /\ replies' = [replies EXCEPT !.analyze =
                              [code |-> 200, status |-> "processing"]]
    /\ UNCHANGED sessions
    /\ UNCHANGED pipelinevars
    /\ UNCHANGED cli

\* GET /progress/<session_id>
get_progress ==
    /\ replies' = [replies EXCEPT !.progress =
          IF SessionId \notin DOMAIN sessions
          THEN InvalidSession
          ELSE [code |-> 200,
                status |-> Get(sessions[SessionId], "status", "unknown"),
                progress |-> Get(sessions[SessionId], "progress", 0),
                current_step |-> Get(sessions[SessionId], "current_step",
                                     "Initializing")]]
    /\ UNCHANGED <<sessions, threads>>
    /\ UNCHANGED pipelinevars
    /\ UNCHANGED cli

\* GET /results/<session_id>
get_results ==
    /\ replies' = [replies EXCEPT !.results =
          IF SessionId \notin DOMAIN sessions
          THEN InvalidSession
          ELSE IF Get(sessions[SessionId], "status", "None") # "completed"
          THEN [code |-> 400, error |-> "Analysis not completed"]
          ELSE [code |-> 200, status |-> "completed",
                results |-> Get(sessions[SessionId], "results", <<>>)]]
    /\ UNCHANGED <<sessions, threads>>
    /\ UNCHANGED pipelinevars
    /\ UNCHANGED cli

\* run_analysis, one statement at a time: the threads share the sessions
\* dictionary and each statement looks the session up again.
ThreadAt(t, pc) == t \in 1..Len(threads) /\ threads[t].pc = pc

ThreadGoes(t, pc, i) ==
    threads' = [threads EXCEPT ![t] = [pc |-> pc, i |-> i]]

\* sessions[session_id]['status'] = 'processing'
RunSetProcessing(t) ==
    /\ ThreadAt(t, "status")
    /\ sessions' = SetSessionItem("status", "processing")
    /\ ThreadGoes(t, "progress0", 0)
    /\ UNCHANGED replies
    /\ UNCHANGED pipelinevars
    /\ UNCHANGED cli

\* sessions[session_id]['progress'] = 0
RunResetProgress(t) ==
    /\ ThreadAt(t, "progress0")
    /\ sessions' = SetSessionItem("progress", 0)
    /\ ThreadGoes(t, "loop", 0)
    /\ UNCHANGED replies
    /\ UNCHANGED pipelinevars
    /\ UNCHANGED cli

\* time.sleep(0.1); sessions[session_id]['progress'] = i
RunSetProgress(t) ==
    /\ ThreadAt(t, "loop")
    /\ sessions' = SetSessionItem("progress", threads[t].i)
    /\ ThreadGoes(t, "step", threads[t].i)
    /\ UNCHANGED replies
    /\ UNCHANGED pipelinevars
    /\ UNCHANGED cli

\* sessions[session_id]['current_step'] = get_step_name(i), and the next i
RunSetStep(t) ==
    /\ ThreadAt(t, "step")
    /\ sessions' = SetSessionItem("current_step", get_step_name(threads[t].i))
    /\ IF threads[t].i < LastProgress
       THEN ThreadGoes(t, "loop", threads[t].i + 1)
       ELSE ThreadGoes(t, "completed", threads[t].i)
    /\ UNCHANGED replies
    /\ UNCHANGED pipelinevars
    /\ UNCHANGED cli

\* sessions[session_id]['status'] = 'completed'
RunSetCompleted(t) ==
    /\ ThreadAt(t, "completed")
    /\ sessions' = SetSessionItem("status", "completed")
    /\ ThreadGoes(t, "results", threads[t].i)
    /\ UNCHANGED replies
    /\ UNCHANGED pipelinevars
    /\ UNCHANGED cli

\* sessions[session_id]['results'] = generate_mock_results()
RunSetResults(t) ==
    /\ ThreadAt(t, "results")
    /\ sessions' = SetSessionItem("results", generate_mock_results)
    /\ ThreadGoes(t, "finished", threads[t].i)
    /\ UNCHANGED replies
    /\ UNCHANGED pipelinevars
    /\ UNCHANGED cli

----------------------------------------------------------------------------
(* The command line of src/src/main.py and ConfigLoader.update_runtime of *)
(* src/src/config/config_loader.py.                                       *)

\* The store_true flags of the parser.
Flags == {"skip_word", "skip_excel", "debug", "dry_run"}

\* The fields of the dataclass RuntimeConfig.
RuntimeFields == {"execute_api_calls", "debug_logging", "dry_run"}

\* What the runtime section of the configuration file can hold.
RuntimeConfigs ==
    [execute_api_calls : BOOLEAN, debug_logging : BOOLEAN, dry_run : BOOLEAN]

\* The ten other fields of AppConfig, as one value: update_runtime copies
\* each of them from the configuration it loaded.
OtherSettings == {"settings_a", "settings_b"}

\* ConfigLoader.load(): the file's content as an AppConfig.
AppConfigs == [others : OtherSettings, runtime : RuntimeConfigs]

\* runtime_dict.update(kwargs)
DictUpdate(d, kwargs) ==
    [k \in DOMAIN d \cup DOMAIN kwargs |->
        IF k \in DOMAIN kwargs THEN kwargs[k] ELSE d[k]]

TypeError == [raised |-> "TypeError"]

\* RuntimeConfig(**runtime_dict): a keyword that is no field is a TypeError.
RuntimeConfig(runtime_dict) ==
    IF DOMAIN runtime_dict \subseteq RuntimeFields
    THEN runtime_dict
    ELSE TypeError

\* update_runtime(**kwargs), where loaded is what self.load() returns.
update_runtime(loaded, kwargs) ==
    LET runtime_dict == DictUpdate(loaded.runtime, kwargs)
    IN  IF RuntimeConfig(runtime_dict) = TypeError
        THEN TypeError
        ELSE [others |-> loaded.others,
              runtime |-> RuntimeConfig(runtime_dict)]

\* The keyword main() passes for each flag.
Override(flag) ==
    CASE flag = "skip_word"  -> [word_enabled |-> FALSE]
      [] flag = "skip_excel" -> [excel_enabled |-> FALSE]
      [] flag = "debug"      -> [debug_logging |-> TRUE]
      [] flag = "dry_run"    -> [execute_api_calls |-> FALSE]

\* The statement that follows the "if" of a flag.
AfterFlag(flag) ==
    CASE flag = "skip_word"  -> "skip_excel"
      [] flag = "skip_excel" -> "debug"
      [] flag = "debug"      -> "dry_run"
      [] flag = "dry_run"    -> "run"

CliIdle ==
    cli = [args |-> {}, pc |-> "unused", loaded |-> <<>>, config |-> <<>>]

\* "if args.<flag>: config = config_loader.update_runtime(<keyword>)".
\* Nothing in main() catches an exception of update_runtime.
ApplyOverride(flag) ==
    /\ cli.pc = flag
    /\ IF flag \notin cli.args
       THEN cli' = [cli EXCEPT !.pc = AfterFlag(flag)]
       ELSE LET updated == update_runtime(cli.loaded, Override(flag))
            IN  IF updated = TypeError
                THEN cli' = [cli EXCEPT !.pc = "raised"]
                ELSE cli' = [cli EXCEPT !.config = updated,
                                        !.pc = AfterFlag(flag)]
    /\ UNCHANGED pipelinevars
    /\ UNCHANGED srvvars

----------------------------------------------------------------------------
(* Specification of a pipeline run                                        *)

Budget ==
    [max_tokens |-> 1007, response_tokens |-> 1, safety_buffer |-> 1,
     target_input_tokens_per_chunk |-> 8]

RunConfigs ==
    { [max_tokens |-> Budget.max_tokens,
       response_tokens |-> Budget.response_tokens,
       safety_buffer |-> Budget.safety_buffer,
       target_input_tokens_per_chunk |-> Budget.target_input_tokens_per_chunk,
       verbatim_batch_size |-> 2,
       strategic_analysis_batch_size |-> 2,
       execute_api_calls |-> x,
       max_concurrent_requests |-> m] :
      x \in BOOLEAN, m \in 1..MaxSlots }

Idle(ks) == [k \in ks |-> <<>>]

RunIdle ==
    /\ stage = "Idle"
    /\ main_report = "none"
    /\ objectives = <<>>
    /\ tasks = Idle(Kinds)
    /\ completed = Idle(Kinds)
    /\ sem_value = config.max_concurrent_requests
    /\ issued = [k \in Kinds |-> 0]
    /\ q_pc = "idle"
    /\ q_batch = 0
    /\ all_mappings = <<>>
    /\ e_pc = "idle"
    /\ emergent_report = NoResult
    /\ s_pc = "idle"
    /\ s_batch = 0
    /\ topics = <<>>
    /\ analyses = <<>>
    /\ error = "none"
    /\ log = <<>>

TranslateIdle ==
    /\ translation_cache = <<>>
    /\ tr_calls = <<>>

Init ==
    /\ config \in RunConfigs
    /\ guide \in {"none", "found"}
    /\ all_verbatims = <<>>
    /\ chunks = <<>>
    /\ ck_pc = "unused"
    /\ transcript = <<>>
    /\ chunker = ChunkerIdle
    /\ ServerIdle
    /\ CliIdle
    /\ RunIdle
    /\ TranslateIdle

Next ==
    \/ StartRun
    \/ ObjectivesDone
    \/ ExtractVerbatims
    \/ QStart
    \/ EStart
    \/ QProcessBatch
    \/ EProcess
    \/ Join
    \/ SProcessBatch
    \/ \E k \in Kinds : \E i \in 1..Len(tasks[k]) : Acquire(k, i)
    \/ \E k \in Kinds : \E i \in 1..Len(tasks[k]) : Settle(k, i)
    \/ \E k \in Kinds : \E i \in 1..Len(tasks[k]) : DryRunCall(k, i)

Spec == Init /\ [][Next]_vars

\* The event loop runs every callback that is ready, and every external
\* call settles: a run that can take a step eventually takes one.
\* Runs with batches of one: every verbatim is a mapping batch, a chunk
\* and (with two topics) every topic a strategic batch of its own.
LiveConfigs ==
    { [c EXCEPT !.verbatim_batch_size = 1,
                !.strategic_analysis_batch_size = 1,
                !.target_input_tokens_per_chunk = 4] : c \in RunConfigs }

LiveInit ==
    /\ config \in LiveConfigs
    /\ guide \in {"none", "found"}
    /\ all_verbatims = <<>>
    /\ chunks = <<>>
    /\ ck_pc = "unused"
    /\ transcript = <<>>
    /\ chunker = ChunkerIdle
    /\ ServerIdle
    /\ CliIdle
    /\ RunIdle
    /\ TranslateIdle

LiveNext ==
    \/ StartRun
    \/ ObjectivesDone
    \/ ExtractVerbatimsLive
    \/ QStart
    \/ EStart
    \/ QProcessBatch
    \/ EProcess
    \/ Join
    \/ SProcessBatch
    \/ \E k \in Kinds : \E i \in 1..Len(tasks[k]) : Acquire(k, i)
    \/ \E k \in Kinds : \E i \in 1..Len(tasks[k]) : Settle(k, i)
    \/ \E k \in Kinds : \E i \in 1..Len(tasks[k]) : DryRunCall(k, i)

SpecLive == LiveInit /\ [][LiveNext]_vars /\ WF_vars(LiveNext)

----------------------------------------------------------------------------
(* SpeakerTextExtractor and the extraction of a .txt transcript:          *)
(* TextProcessor.extract_speaker_and_text, VerbatimExtractor              *)
(* ._extract_from_txt and ._find_content_start.                           *)

\* A line of a transcript, by what the code asks of it: whether
\* line.strip() is empty, whether it contains '=' * 10, and the groups
\* timestamp_pattern.match and simple_speaker_pattern.match capture on the
\* stripped line (<<>> for no match).  The patterns are configuration; a
\* group is a sequence of symbols in which " " is white space.
NoMatch == <<>>

Line(blank, separator, timestamp_match, simple_match) ==
    [blank |-> blank, separator |-> separator,
     timestamp_match |-> timestamp_match, simple_match |-> simple_match]

LineBlank == Line(TRUE, FALSE, NoMatch, NoMatch)
LineNarrative == Line(FALSE, FALSE, NoMatch, NoMatch)
LineSeparator == Line(FALSE, TRUE, NoMatch, NoMatch)
LineAlice ==
    Line(FALSE, FALSE, NoMatch, << <<"Alice">>, <<" ", "I", "like", "it">> >>)
LineBobTimestamp ==
    Line(FALSE, FALSE,
         << <<"Bob", " ">>, <<"00:01">>, <<" ", "confusing">> >>,
         << <<"Bob", " ", "[00:01]">>, <<" ", "confusing">> >>)
LineTagOnly == Line(FALSE, FALSE, NoMatch, << <<"Cara">>, <<>> >>)
LineTimestampOnly ==
    Line(FALSE, FALSE,
         << <<"Dan">>, <<"00:02">>, <<>> >>,
         << <<"Dan">>, <<"[00:02]">> >>)

Lines ==
    {LineBlank, LineNarrative, LineSeparator, LineAlice, LineBobTimestamp,
     LineTagOnly, LineTimestampOnly}

\* TextProcessor.extract_speaker_and_text: None is <<>>.
extract_speaker_and_text(line) ==
    IF line.blank THEN <<>>
    ELSE IF line.timestamp_match # NoMatch
    THEN LET speaker == Strip(line.timestamp_match[1])
             timestamp == Strip(line.timestamp_match[2])
             text == Strip(line.timestamp_match[3])
         IN IF text # <<>> THEN <<speaker, text, timestamp>> ELSE <<>>
    ELSE IF line.simple_match # NoMatch
    THEN LET speaker == Strip(line.simple_match[1])
             text == Strip(line.simple_match[2])
         IN IF text # <<>> THEN <<speaker, text, <<>> >> ELSE <<>>
    ELSE <<>>

\* VerbatimExtractor._find_content_start: the 0-based index after the
\* first line, other than the file's first, that contains '=' * 10.
RECURSIVE FindContentStartFrom(_, _)
FindContentStartFrom(lines, i) ==
    IF i >= Len(lines) THEN 0
    ELSE IF lines[i + 1].separator /\ i > 0 THEN i + 1
    ELSE FindContentStartFrom(lines, i + 1)

find_content_start(lines) == FindContentStartFrom(lines, 0)

\* The record appended for a line extract_speaker_and_text matched.
VerbatimOf(result, source_file) ==
    IF result[3] # <<>>
    THEN [speaker |-> result[1], text |-> result[2],
          source_file |-> source_file, timestamp |-> result[3]]
    ELSE [speaker |-> result[1], text |-> result[2],
          source_file |-> source_file]

\* "for line in lines[start_idx:]"
RECURSIVE ExtractLoop(_, _, _)
ExtractLoop(lines, source_file, verbatims) ==
    IF lines = <<>> THEN verbatims
    ELSE LET result == extract_speaker_and_text(Head(lines)) IN
         ExtractLoop(Tail(lines), source_file,
                     IF result # <<>>
                     THEN Append(verbatims, VerbatimOf(result, source_file))
                     ELSE verbatims)

extract_from_txt(lines, source_file) ==
    LET start_idx == find_content_start(lines) IN
    ExtractLoop(SubSeq(lines, start_idx + 1, Len(lines)), source_file, <<>>)

\* Specification of the extraction of one transcript file of up to
\* MaxLines lines, as extract_all_verbatims runs it in run_pipeline.
ExtractInit ==
    /\ config \in {c \in RunConfigs :
                      c.execute_api_calls /\ c.max_concurrent_requests = 1}
    /\ guide = "none"
    /\ all_verbatims = <<>>
    /\ chunks = <<>>
    /\ ck_pc = "unused"
    /\ transcript \in SeqsUpTo(Lines, MaxLines)
    /\ chunker = ChunkerIdle
    /\ ServerIdle
    /\ CliIdle
    /\ stage = "ExtractingVerbatims"
    /\ main_report = "none"
    /\ objectives = <<>>
    /\ tasks = Idle(Kinds)
    /\ completed = Idle(Kinds)
    /\ sem_value = config.max_concurrent_requests
    /\ issued = [k \in Kinds |-> 0]
    /\ q_pc = "idle"
    /\ q_batch = 0
    /\ all_mappings = <<>>
    /\ e_pc = "idle"
    /\ emergent_report = NoResult
    /\ s_pc = "idle"
    /\ s_batch = 0
    /\ topics = <<>>
    /\ analyses = <<>>
    /\ error = "none"
    /\ log = <<>>
    /\ TranslateIdle

ExtractTranscript ==
    ExtractVerbatimsFrom({extract_from_txt(transcript, "t1.txt")})

ExtractNext == ExtractTranscript

SpecExtract == ExtractInit /\ [][ExtractNext]_vars

----------------------------------------------------------------------------
(* Specification of a run in which _chunk_verbatims is followed one loop  *)
(* iteration at a time.  perform_emergent_topic_analysis calls it as a    *)
(* plain function: between its first statement and its return there is    *)
(* no await, so the event loop runs no other callback meanwhile (the      *)
(* tasks created so far wait for BranchesStarted).                        *)

\* perform_emergent_topic_analysis up to the first iteration of
\* _chunk_verbatims' loop.
EChunkBegin ==
    /\ stage = "ParallelAnalysis"
    /\ Alive
    /\ e_pc = "init"
    /\ q_pc # "init"
    /\ e_pc' = "chunking"
    /\ chunker' = ChunkerStart(all_verbatims)
    /\ UNCHANGED srvvars
    /\ UNCHANGED cli
    /\ UNCHANGED trvars
    /\ UNCHANGED transcript
    /\ UNCHANGED log
    /\ UNCHANGED <<config, all_verbatims, chunks, ck_pc, guide, stage,
                   main_report, objectives, tasks, completed, sem_value,
                   issued, q_pc, q_batch, all_mappings, emergent_report, s_pc,
                   s_batch, topics, analyses, error>>

\* One iteration of "for verbatim in verbatims".
EChunkStep ==
    /\ e_pc = "chunking"
    /\ chunker.rest # <<>>
    /\ LET st == ChunkStep([chunks |-> chunker.chunks,
                            current_chunk |-> chunker.current_chunk,
                            current_tokens |-> chunker.current_tokens],
                           Head(chunker.rest), config)
       IN chunker' = [chunks |-> st.chunks,
                      current_chunk |-> st.current_chunk,
                      current_tokens |-> st.current_tokens,
                      rest |-> Tail(chunker.rest)]
    /\ UNCHANGED srvvars
    /\ UNCHANGED cli
    /\ UNCHANGED trvars
    /\ UNCHANGED transcript
    /\ UNCHANGED log
    /\ UNCHANGED <<config, all_verbatims, chunks, ck_pc, guide, stage,
                   main_report, objectives, tasks, completed, sem_value,
                   issued, q_pc, q_batch, all_mappings, e_pc, emergent_report,
                   s_pc, s_batch, topics, analyses, error>>

\* The loop is over: the last chunk is flushed, _chunk_verbatims returns
\* and perform_emergent_topic_analysis goes on to its gather.
EChunkEnd ==
    /\ e_pc = "chunking"
    /\ chunker.rest = <<>>
    /\ chunks' = IF chunker.current_chunk # <<>>
                 THEN Append(chunker.chunks, chunker.current_chunk)
                 ELSE chunker.chunks
    /\ tasks' = [tasks EXCEPT !["emergent"] = NewTasks(chunks')]
    /\ e_pc' = "gather"
    /\ UNCHANGED trvars
    /\ UNCHANGED transcript
    /\ UNCHANGED chunker
    /\ UNCHANGED srvvars
    /\ UNCHANGED cli
    /\ UNCHANGED log
    /\ UNCHANGED <<config, all_verbatims, ck_pc, guide, stage, main_report,
                   objectives, completed, sem_value, issued, q_pc, q_batch,
                   all_mappings, emergent_report, s_pc, s_batch, topics,
                   analyses, error>>

ChunkerNext ==
    \/ EChunkBegin
    \/ EChunkStep
    \/ EChunkEnd
    \/ StartRun
    \/ ObjectivesDone
    \/ ExtractVerbatims
    \/ QStart
    \/ QProcessBatch
    \/ EProcess
    \/ Join
    \/ SProcessBatch
    \/ \E k \in Kinds : \E i \in 1..Len(tasks[k]) : Acquire(k, i)
    \/ \E k \in Kinds : \E i \in 1..Len(tasks[k]) : Settle(k, i)
    \/ \E k \in Kinds : \E i \in 1..Len(tasks[k]) : DryRunCall(k, i)

SpecChunker == Init /\ [][ChunkerNext]_vars

----------------------------------------------------------------------------
(* Specification of a run from the construction of its client:            *)
(* QualitativeAnalysisPipeline.__init__ builds AIClient(config, logger)   *)
(* before main() awaits run_pipeline.  config.openai.api_key is the       *)
(* configured key or the environment's OPENAI_API_KEY, or None.           *)

ApiKeys == {"set", "unset"}

ConstructConfigs ==
    { [max_tokens |-> c.max_tokens,
       response_tokens |-> c.response_tokens,
       safety_buffer |-> c.safety_buffer,
       target_input_tokens_per_chunk |-> c.target_input_tokens_per_chunk,
       verbatim_batch_size |-> c.verbatim_batch_size,
       strategic_analysis_batch_size |-> c.strategic_analysis_batch_size,
       execute_api_calls |-> c.execute_api_calls,
       max_concurrent_requests |-> c.max_concurrent_requests,
       api_key |-> key] :
      c \in LiveConfigs, key \in ApiKeys }

ConstructInit ==
    /\ config \in ConstructConfigs
    /\ guide \in {"none", "found"}
    /\ all_verbatims = <<>>
    /\ chunks = <<>>
    /\ ck_pc = "unused"
    /\ transcript = <<>>
    /\ chunker = ChunkerIdle
    /\ ServerIdle
    /\ CliIdle
    /\ stage = "New"
    /\ main_report = "none"
    /\ objectives = <<>>
    /\ tasks = Idle(Kinds)
    /\ completed = Idle(Kinds)
    /\ sem_value = config.max_concurrent_requests
    /\ issued = [k \in Kinds |-> 0]
    /\ q_pc = "idle"
    /\ q_batch = 0
    /\ all_mappings = <<>>
    /\ e_pc = "idle"
    /\ emergent_report = NoResult
    /\ s_pc = "idle"
    /\ s_batch = 0
    /\ topics = <<>>
    /\ analyses = <<>>
    /\ error = "none"
    /\ log = <<>>
    /\ TranslateIdle

\* AIClient.__init__: "if config.openai.api_key: self.client = OpenAI(...)
\* else: raise ValueError("OPENAI_API_KEY not configured")", whatever
\* execute_api_calls says; main() reports the failure and exits.
ConstructClient ==
    /\ stage = "New"
    /\ IF config.api_key = "set"
       THEN /\ stage' = "Idle"
            /\ UNCHANGED <<main_report, error, tasks, sem_value>>
       ELSE RunFails("ValueError")
    /\ UNCHANGED trvars
    /\ UNCHANGED transcript
    /\ UNCHANGED chunker
    /\ UNCHANGED srvvars
    /\ UNCHANGED cli
    /\ UNCHANGED log
    /\ UNCHANGED <<config, all_verbatims, chunks, ck_pc, guide, objectives,
                   completed, issued, q_pc, q_batch, all_mappings, e_pc,
                   emergent_report, s_pc, s_batch, topics, analyses>>

ConstructNext ==
    \/ ConstructClient
    \/ LiveNext

SpecConstruct == ConstructInit /\ [][ConstructNext]_vars

----------------------------------------------------------------------------
(* Specification of the chunker alone: every input sequence up to        *)
(* MaxVerbatims records under every budget of ChunkConfigs.               *)

ChunkConfigs ==
    [max_tokens : {1004, 1008},
     response_tokens : {1},
     safety_buffer : {1},
     target_input_tokens_per_chunk : {1, 3, 8},
     verbatim_batch_size : {2},
     strategic_analysis_batch_size : {1},
     execute_api_calls : {TRUE},
     max_concurrent_requests : {1}]

ChunkInit ==
    /\ config \in ChunkConfigs
    /\ all_verbatims \in SeqsUpTo(Verbatims, MaxVerbatims)
    /\ chunks = <<>>
    /\ ck_pc = "ready"
    /\ transcript = <<>>
    /\ chunker = ChunkerIdle
    /\ ServerIdle
    /\ CliIdle
    /\ guide = "none"
    /\ RunIdle
    /\ TranslateIdle

ChunkCall ==
    /\ ck_pc = "ready"
    /\ chunks' = chunk_verbatims(all_verbatims, config)
    /\ ck_pc' = "done"
    /\ UNCHANGED <<config, all_verbatims>>
    /\ UNCHANGED runvars
    /\ UNCHANGED trvars
    /\ UNCHANGED transcript
    /\ UNCHANGED chunker
    /\ UNCHANGED srvvars
    /\ UNCHANGED cli

ChunkNext == ChunkCall

SpecChunk == ChunkInit /\ [][ChunkNext]_vars

----------------------------------------------------------------------------
(* Specification of the translation cache: two calls of translate_text,  *)
(* every pair of texts, with and without dry-run.                        *)

TranslateInit ==
    /\ config \in RunConfigs
    /\ guide = "none"
    /\ all_verbatims = <<>>
    /\ chunks = <<>>
    /\ ck_pc = "unused"
    /\ transcript = <<>>
    /\ chunker = ChunkerIdle
    /\ ServerIdle
    /\ CliIdle
    /\ RunIdle
    /\ translation_cache = <<>>
    /\ tr_calls \in [Callers -> {NewCall(t) : t \in Texts}]

TranslateNext ==
    \/ \E c \in Callers : TranslateEnter(c)
    \/ \E c \in Callers : TranslateAcquire(c)
    \/ \E c \in Callers : TranslateSettle(c)

SpecTranslate == TranslateInit /\ [][TranslateNext]_vars

\* Every external call settles, and asyncio.Semaphore wakes its waiters in
\* the order they arrived, so a waiter is not passed over for ever.
SpecTranslateLive ==
    /\ SpecTranslate
    /\ \A c \in Callers : WF_vars(TranslateSettle(c))
    /\ \A c \in Callers : SF_vars(TranslateAcquire(c))

----------------------------------------------------------------------------
(* Specification of _process_mapping_result alone: one verbatim, every    *)
(* identifier and confidence of HandlerIds and Confidences, every         *)
(* objectives list up to MaxObjectives.                                   *)

LowConfidence == JStr(<<"L", "o", "w">>)

HandlerIds ==
    { JStr(ID0), JStr(ID00), JStr(ID1), JStr(ID2), JStr(ID9), JStr(ID10),
      JStr(IDx), JStr(IDnodash), JNull, JNum, JAbsent }

Confidences == {High, LowConfidence, JAbsent}

ObjectiveLists == {[i \in 1..k |-> Objective(i)] : k \in 0..MaxObjectives}

HandlerResults(req) ==
    { [kind |-> "dict", for |-> req, best_fit_question_id |-> id,
       confidence |-> c] : id \in HandlerIds, c \in Confidences }

MappingInit ==
    /\ config \in {c \in RunConfigs :
                      c.execute_api_calls /\ c.max_concurrent_requests = 1}
    /\ guide = "found"
    /\ \E v \in Verbatims :
          /\ all_verbatims = <<v>>
          /\ \E r \in HandlerResults(v) :
                tasks = [Idle(Kinds) EXCEPT !["mapping"] =
                            <<[req |-> v, status |-> "done", result |-> r]>>]
    /\ objectives \in ObjectiveLists
    /\ chunks = <<>>
    /\ ck_pc = "unused"
    /\ transcript = <<>>
    /\ chunker = ChunkerIdle
    /\ ServerIdle
    /\ CliIdle
    /\ stage = "ParallelAnalysis"
    /\ main_report = "none"
    /\ completed = [Idle(Kinds) EXCEPT !["mapping"] = <<1>>]
    /\ sem_value = config.max_concurrent_requests
    /\ issued = [k \in Kinds |-> 0]
    /\ q_pc = "process"
    /\ q_batch = 1
    /\ all_mappings = <<>>
    /\ e_pc = "idle"
    /\ emergent_report = NoResult
    /\ s_pc = "idle"
    /\ s_batch = 0
    /\ topics = <<>>
    /\ analyses = <<>>
    /\ error = "none"
    /\ log = <<>>
    /\ TranslateIdle

\* self._process_mapping_result(verbatim, result, objectives, all_mappings)
MappingCall ==
    /\ q_pc = "process"
    /\ LET r == process_mapping_result(all_verbatims[1],
                                       tasks["mapping"][1].result,
                                       objectives, all_mappings)
       IN /\ all_mappings' = r.rows
          /\ error' = r.exc
          /\ log' = IF r.logged THEN Append(log, LogEntry(all_verbatims[1]))
                    ELSE log
    /\ q_pc' = "processed"
    /\ UNCHANGED trvars
    /\ UNCHANGED transcript
    /\ UNCHANGED chunker
    /\ UNCHANGED srvvars
    /\ UNCHANGED cli
    /\ UNCHANGED <<config, all_verbatims, chunks, ck_pc, guide, stage,
                   main_report, objectives, tasks, completed, sem_value, issued,
                   q_batch, e_pc, emergent_report, s_pc, s_batch, topics,
                   analyses>>

MappingNext == MappingCall

SpecMapping == MappingInit /\ [][MappingNext]_vars

----------------------------------------------------------------------------
(* Specification of _process_strategic_result alone: one topic pair and   *)
(* every combination of key_themes, key_takeaways and supporting_quotes   *)
(* up to MaxItems entries each.                                           *)

ItemLists(S) == SeqsUpTo(S, MaxItems)

\* AIClient.analyze_topic_strategically: the verbatims listed in the prompt,
\* verbatims[:max_verbatims_per_topic].
verbatim_list(verbatims, cfg) ==
    SubSeq(verbatims, 1, Min(cfg.max_verbatims_per_topic, Len(verbatims)))

\* len(topic_verbatims_list), the count handed to _process_strategic_result
topic_verbatim_count_listed(topic_verbatims_list) ==
    Min(config.max_verbatims_per_topic, Len(topic_verbatims_list))
topic_verbatim_count(topic_verbatims_list) == Len(topic_verbatims_list)

HandlerStrategicResults(req) ==
    { [kind |-> "dict", for |-> req, key_insights |-> <<"i">>,
       key_themes |-> th, key_takeaways |-> ta, supporting_quotes |-> qu] :
         th \in ItemLists({<<"A">>, <<"B">>}),
         ta \in ItemLists({<<"X">>}),
         qu \in ItemLists({<<"q">>}) }
      \cup {[kind |-> "list", for |-> req]}

TopicBuckets ==
    { << <<TopicKey(TopicA), vs>> >> :
         vs \in { <<[text |-> "ok", speaker |-> "Alice"]>>,
                  <<[text |-> "ok", speaker |-> "Alice"],
                    [text |-> "it is confusing", speaker |-> "Bob"]>> } }

StrategicInit ==
    /\ config \in {c \in RunConfigs :
                      c.execute_api_calls /\ c.max_concurrent_requests = 1}
    /\ guide = "found"
    /\ all_verbatims = <<>>
    /\ objectives = <<>>
    /\ topics \in TopicBuckets
    /\ \E r \in HandlerStrategicResults(StrategicRequest(topics[1])) :
          tasks = [Idle(Kinds) EXCEPT !["strategic"] =
                      <<[req |-> StrategicRequest(topics[1]), status |-> "done",
                         result |-> r]>>]
    /\ chunks = <<>>
    /\ ck_pc = "unused"
    /\ transcript = <<>>
    /\ chunker = ChunkerIdle
    /\ ServerIdle
    /\ CliIdle
    /\ stage = "StrategicAnalysis"
    /\ main_report = "none"
    /\ completed = [Idle(Kinds) EXCEPT !["strategic"] = <<1>>]
    /\ sem_value = config.max_concurrent_requests
    /\ issued = [k \in Kinds |-> 0]
    /\ q_pc = "idle"
    /\ q_batch = 0
    /\ all_mappings = <<>>
    /\ e_pc = "idle"
    /\ emergent_report = NoResult
    /\ s_pc = "process"
    /\ s_batch = 1
    /\ analyses = <<>>
    /\ error = "none"
    /\ log = <<>>
    /\ TranslateIdle

\* self._process_strategic_result(broad_topic, sub_topic, result,
\*                                len(topic_verbatims_list), analyses)
StrategicCall ==
    /\ s_pc = "process"
    /\ LET req == tasks["strategic"][1].req IN
       analyses' = process_strategic_result(req.broad_topic, req.sub_topic,
                                            tasks["strategic"][1].result,
                                            topic_verbatim_count(topics[1][2]),
                                            analyses)
    /\ s_pc' = "processed"
    /\ UNCHANGED trvars
    /\ UNCHANGED transcript
    /\ UNCHANGED chunker
    /\ UNCHANGED srvvars
    /\ UNCHANGED cli
    /\ UNCHANGED <<config, all_verbatims, chunks, ck_pc, guide, stage,
                   main_report, objectives, tasks, completed, sem_value, issued,
                   q_pc, q_batch, all_mappings, e_pc, emergent_report, s_batch,
                   topics, error, log>>

StrategicNext == StrategicCall

SpecStrategic == StrategicInit /\ [][StrategicNext]_vars

----------------------------------------------------------------------------
(* Specification of the analysis of one topic: the request built from a   *)
(* bucket of up to MaxBucket verbatims under max_verbatims_per_topic up   *)
(* to MaxPerTopic, then _process_strategic_result on its response.        *)

CountConfigs ==
    { [max_tokens |-> c.max_tokens,
       response_tokens |-> c.response_tokens,
       safety_buffer |-> c.safety_buffer,
       target_input_tokens_per_chunk |-> c.target_input_tokens_per_chunk,
       verbatim_batch_size |-> c.verbatim_batch_size,
       strategic_analysis_batch_size |-> c.strategic_analysis_batch_size,
       execute_api_calls |-> c.execute_api_calls,
       max_concurrent_requests |-> c.max_concurrent_requests,
       max_verbatims_per_topic |-> m] :
      c \in {x \in RunConfigs :
                x.execute_api_calls /\ x.max_concurrent_requests = 1},
      m \in 1..MaxPerTopic }

CountBuckets ==
    { << <<TopicKey(TopicA), vs>> >> :
         vs \in SeqsUpTo({[text |-> v.text, speaker |-> v.speaker] :
                             v \in Verbatims}, MaxBucket) \ {<<>>} }

CountInit ==
    /\ config \in CountConfigs
    /\ guide = "found"
    /\ all_verbatims = <<>>
    /\ objectives = <<>>
    /\ topics \in CountBuckets
    /\ tasks = Idle(Kinds)
    /\ chunks = <<>>
    /\ ck_pc = "unused"
    /\ transcript = <<>>
    /\ chunker = ChunkerIdle
    /\ ServerIdle
    /\ CliIdle
    /\ stage = "StrategicAnalysis"
    /\ main_report = "none"
    /\ completed = Idle(Kinds)
    /\ sem_value = config.max_concurrent_requests
    /\ issued = [k \in Kinds |-> 0]
    /\ q_pc = "idle"
    /\ q_batch = 0
    /\ all_mappings = <<>>
    /\ e_pc = "idle"
    /\ emergent_report = NoResult
    /\ s_pc = "send"
    /\ s_batch = 1
    /\ analyses = <<>>
    /\ error = "none"
    /\ log = <<>>
    /\ TranslateIdle

\* analyze_topic_strategically(broad_topic, sub_topic, verbatims): the
\* prompt lists verbatim_list, and the service answers what it was sent.
CountSend ==
    /\ s_pc = "send"
    /\ LET req == StrategicRequest(topics[1])
           prompt == [broad_topic |-> req.broad_topic,
                      sub_topic |-> req.sub_topic,
                      verbatim_list |-> verbatim_list(req.verbatims, config)]
       IN \E r \in StrategicResponses(prompt) :
             tasks' = [tasks EXCEPT !["strategic"] =
                          <<[req |-> req, status |-> "done", result |-> r]>>]
    /\ completed' = [completed EXCEPT !["strategic"] = <<1>>]
    /\ issued' = [issued EXCEPT !["strategic"] = 1]
    /\ s_pc' = "process"
    /\ UNCHANGED trvars
    /\ UNCHANGED transcript
    /\ UNCHANGED chunker
    /\ UNCHANGED srvvars
    /\ UNCHANGED cli
    /\ UNCHANGED <<config, all_verbatims, chunks, ck_pc, guide, stage,
                   main_report, objectives, sem_value, q_pc, q_batch,
                   all_mappings, e_pc, emergent_report, s_batch, topics,
                   analyses, error, log>>

CountNext ==
    \/ CountSend
    \/ StrategicCall

SpecCount == CountInit /\ [][CountNext]_vars

----------------------------------------------------------------------------
(* Specification of the API server: one uploaded session, requests in any *)
(* order, up to MaxThreads run_analysis threads.                          *)

ServerInit ==
    /\ config \in {c \in RunConfigs :
                      c.execute_api_calls /\ c.max_concurrent_requests = 1}
    /\ guide = "none"
    /\ all_verbatims = <<>>
    /\ chunks = <<>>
    /\ ck_pc = "unused"
    /\ transcript = <<>>
    /\ chunker = ChunkerIdle
    /\ ServerIdle
    /\ CliIdle
    /\ RunIdle
    /\ TranslateIdle

ServerNext ==
    \/ configure_analysis
    \/ start_analysis
    \/ get_progress
    \/ get_results
    \/ \E t \in 1..MaxThreads : RunSetProcessing(t)
    \/ \E t \in 1..MaxThreads : RunResetProgress(t)
    \/ \E t \in 1..MaxThreads : RunSetProgress(t)
    \/ \E t \in 1..MaxThreads : RunSetStep(t)
    \/ \E t \in 1..MaxThreads : RunSetCompleted(t)
    \/ \E t \in 1..MaxThreads : RunSetResults(t)

SpecServer == ServerInit /\ [][ServerNext]_vars

----------------------------------------------------------------------------
(* Specification of the command line: any set of flags over any runtime   *)
(* section of the file; main() has parsed args and made its first load(). *)

OverridesInit ==
    /\ config \in {c \in RunConfigs :
                      c.execute_api_calls /\ c.max_concurrent_requests = 1}
    /\ guide = "none"
    /\ all_verbatims = <<>>
    /\ chunks = <<>>
    /\ ck_pc = "unused"
    /\ transcript = <<>>
    /\ chunker = ChunkerIdle
    /\ ServerIdle
    /\ \E args \in SUBSET Flags : \E loaded \in AppConfigs :
          cli = [args |-> args, pc |-> "skip_word", loaded |-> loaded,
                 config |-> loaded]
    /\ RunIdle
    /\ TranslateIdle

OverridesNext == \E flag \in Flags : ApplyOverride(flag)

SpecOverrides == OverridesInit /\ [][OverridesNext]_vars

----------------------------------------------------------------------------
(* Specification of the aggregation loop of perform_strategic_analysis    *)
(* alone: every report of up to MaxReportVerbatims records, each with up  *)
(* to MaxAssigned assigned topics.                                        *)

AssignedTopicLists == SeqsUpTo({TopicA, TopicB}, MaxAssigned)

ReportVerbatims ==
    { [text |-> v.text, speaker |-> v.speaker, source_file |-> v.source_file,
       assigned_topics |-> ts] :
         v \in {x \in Verbatims : x.speaker # "Bob"},
         ts \in AssignedTopicLists }

\* The state at perform_strategic_analysis's entry for a report drawn from
\* reports.
AggregateInitOver(reports) ==
    /\ config \in {c \in RunConfigs :
                      c.execute_api_calls /\ c.max_concurrent_requests = 1}
    /\ guide = "found"
    /\ all_verbatims = <<>>
    /\ objectives = <<>>
    /\ \E vts \in reports :
          emergent_report = [kind |-> "dict", for |-> <<>>,
                             verbatims_with_topics |-> vts]
    /\ tasks = Idle(Kinds)
    /\ chunks = <<>>
    /\ ck_pc = "unused"
    /\ transcript = <<>>
    /\ chunker = ChunkerIdle
    /\ ServerIdle
    /\ CliIdle
    /\ stage = "StrategicAnalysis"
    /\ main_report = "none"
    /\ completed = Idle(Kinds)
    /\ sem_value = config.max_concurrent_requests
    /\ issued = [k \in Kinds |-> 0]
    /\ q_pc = "returned"
    /\ q_batch = 0
    /\ all_mappings = <<>>
    /\ e_pc = "returned"
    /\ s_pc = "aggregate"
    /\ s_batch = 0
    /\ topics = <<>>
    /\ analyses = <<>>
    /\ error = "none"
    /\ log = <<>>
    /\ TranslateIdle

AggregateInit == AggregateInitOver(SeqsUpTo(ReportVerbatims, MaxReportVerbatims))

\* "for verbatim in emergent_report.get('verbatims_with_topics', [])" and
\* "topics = list(topic_verbatims.items())"
AggregateCall ==
    /\ s_pc = "aggregate"
    /\ topics' = topic_items(emergent_report)
    /\ s_pc' = "aggregated"
    /\ UNCHANGED trvars
    /\ UNCHANGED transcript
    /\ UNCHANGED chunker
    /\ UNCHANGED srvvars
    /\ UNCHANGED cli
    /\ UNCHANGED <<config, all_verbatims, chunks, ck_pc, guide, stage,
                   main_report, objectives, tasks, completed, sem_value, issued,
                   q_pc, q_batch, all_mappings, e_pc, emergent_report, s_batch,
                   analyses, error, log>>

AggregateNext == AggregateCall

SpecAggregate == AggregateInit /\ [][AggregateNext]_vars

----------------------------------------------------------------------------
(* Specification of the aggregation loop over topic names that contain    *)
(* the key separator: the model names topics by any string, as the        *)
(* emergent response does.                                                *)

\* ("U|X", "n") and ("U", "X|n"): two pairs with the key "U|X|n".
TopicP == [broad_topic |-> <<"U", "|", "X">>, sub_topic |-> <<"n">>]
TopicQ == [broad_topic |-> <<"U">>, sub_topic |-> <<"X", "|", "n">>]

SeparatorTopicLists == SeqsUpTo({TopicA, TopicP, TopicQ}, MaxAssigned)

SeparatorReportVerbatims ==
    { [text |-> v.text, speaker |-> v.speaker, source_file |-> v.source_file,
       assigned_topics |-> ts] :
         v \in {x \in Verbatims : x.speaker # "Bob"},
         ts \in SeparatorTopicLists }

TopicKeysInit ==
    AggregateInitOver(SeqsUpTo(SeparatorReportVerbatims, MaxReportVerbatims))

TopicKeysNext == AggregateCall

SpecTopicKeys == TopicKeysInit /\ [][TopicKeysNext]_vars

----------------------------------------------------------------------------
(* C1: the batches returned by _chunk_verbatims, concatenated in order,  *)
(* equal the input sequence exactly: nothing dropped, duplicated or      *)
(* reordered.                                                            *)
C1_Partition ==
    ck_pc = "done" => Flatten(chunks) = all_verbatims

\* The chunker has closed a batch and flushed another: at least two batches.
C1_Witness ==
    /\ ck_pc = "done"
    /\ Len(chunks) >= 2
    /\ Len(all_verbatims) = MaxVerbatims

(* C2: every batch is non-empty, and a batch whose summed token cost     *)
(* exceeds the effective ceiling holds exactly one record; a record      *)
(* whose own cost exceeds the ceiling therefore sits alone in a batch.   *)
C2_NonEmptyAndOversizeAlone ==
    ck_pc = "done" =>
        /\ \A i \in 1..Len(chunks) :
              /\ chunks[i] # <<>>
              /\ BatchTokens(chunks[i]) > Ceiling(config) => Len(chunks[i]) = 1
              /\ (\E j \in 1..Len(chunks[i]) :
                     get_token_count(chunks[i][j]) > Ceiling(config))
                 => Len(chunks[i]) = 1
        /\ Len(Flatten(chunks)) = Len(all_verbatims)

\* An oversized record between two records that fit.
C2_Witness ==
    /\ ck_pc = "done"
    /\ Len(all_verbatims) = 3
    /\ get_token_count(all_verbatims[2]) > Ceiling(config)
    /\ get_token_count(all_verbatims[1]) <= Ceiling(config)
    /\ get_token_count(all_verbatims[3]) <= Ceiling(config)
    /\ Len(chunks) = 3

----------------------------------------------------------------------------
(* C3: for every batch of N requests and every completion order, the     *)
(* result sequence handed back by the dispatcher has length N and its    *)
(* position i holds the outcome of request i (a failure marker if it     *)
(* failed, its own result otherwise); every output row is paired with    *)
(* the verbatim or topic that originated it, never a sibling's.          *)
C3_PositionalResults ==
    /\ \A k \in Kinds :
          gather_done(k) =>
              /\ Len(gather_results(k)) = Len(tasks[k])
              /\ \A i \in 1..Len(tasks[k]) :
                    /\ gather_results(k)[i] = tasks[k][i].result
                    /\ gather_results(k)[i].for = tasks[k][i].req
    /\ \A j \in 1..Len(all_mappings) :
          /\ all_mappings[j].Verbatim = all_mappings[j].AnswerFor.text
          /\ all_mappings[j].Speaker = all_mappings[j].AnswerFor.speaker
    /\ \A j \in 1..Len(analyses) :
          /\ analyses[j].BroadTopic = analyses[j].AnswerFor.broad_topic
          /\ analyses[j].SubTopic = analyses[j].AnswerFor.sub_topic

\* A mapping batch of two whose second request settled first, the first
\* failed, and the stage has kept the second's row.
C3_Witness ==
    /\ q_pc = "returned"
    /\ Len(tasks["mapping"]) = 2
    /\ completed["mapping"] = <<2, 1>>
    /\ IsException(tasks["mapping"][1].result)
    /\ Len(all_mappings) = 1
    /\ all_mappings[1].Verbatim = all_verbatims[2].text

(* C4: within a dispatched batch a failing request neither cancels nor   *)
(* fails a sibling, and the dispatcher returns only after every request  *)
(* of the batch has been started and has settled on its own.             *)
C4_Resumes(k) ==
    CASE k = "mapping" ->
             q_pc = "gather" /\ (q_pc' # q_pc \/ q_batch' # q_batch
                                 \/ all_mappings' # all_mappings)
      [] k = "emergent" -> e_pc = "gather" /\ e_pc' # e_pc
      [] k = "strategic" ->
             s_pc = "gather" /\ (s_pc' # s_pc \/ s_batch' # s_batch
                                 \/ analyses' # analyses)
      [] OTHER -> stage = "ExtractingObjectives" /\ stage' # stage

C4_FailsAlone(k) ==
    \A i \in 1..Len(tasks[k]) :
        ( /\ tasks[k][i].status # "done"
          /\ Len(tasks'[k]) = Len(tasks[k])
          /\ tasks'[k][i].status = "done"
          /\ IsException(tasks'[k][i].result) )
        => \A j \in 1..Len(tasks[k]) : j # i => tasks'[k][j] = tasks[k][j]

C4_FailureIsolated ==
    [][\A k \in Kinds :
          /\ C4_Resumes(k) => Settled(k)
          /\ C4_FailsAlone(k)]_vars

\* The first emergent request failed, its sibling settled later with a
\* result, and the stage returned that result.
C4_Witness ==
    /\ e_pc = "returned"
    /\ Len(tasks["emergent"]) = 2
    /\ completed["emergent"] = <<1, 2>>
    /\ IsException(tasks["emergent"][1].result)
    /\ emergent_report = tasks["emergent"][2].result

(* C5: at every moment the number of external reasoning calls in flight  *)
(* through call_gpt5_nano, over all stages, is at most                   *)
(* max_concurrent_requests.                                              *)
C5_InFlightBounded ==
    /\ InFlightCount <= config.max_concurrent_requests
    /\ sem_value = config.max_concurrent_requests - InFlightCount

\* Every slot is taken by calls of two stages while another caller waits.
C5_Witness ==
    /\ Alive
    /\ InFlightCount = config.max_concurrent_requests
    /\ config.max_concurrent_requests = 2
    /\ InFlight("mapping") # {}
    /\ InFlight("emergent") # {}
    /\ \E k \in Kinds : \E i \in 1..Len(tasks[k]) : Runnable(k, i)

(* C6: perform_emergent_topic_analysis on a non-empty verbatim set       *)
(* succeeds exactly when at least one batch request succeeds; when every *)
(* batch request fails it raises, and the run ends in Failed without     *)
(* ever entering StrategicAnalysis.                                      *)
C6_SomeValid ==
    \E i \in 1..Len(tasks["emergent"]) :
        /\ tasks["emergent"][i].status = "done"
        /\ ~IsException(tasks["emergent"][i].result)

C6_EmergentNeedsOneSuccess ==
    /\ e_pc = "returned" => C6_SomeValid /\ ~IsException(emergent_report)
    /\ e_pc = "raised" =>
          /\ ~C6_SomeValid
          /\ Settled("emergent")
          /\ stage = "Failed"
          /\ main_report = "failure"
          /\ s_pc = "idle"
          /\ issued["strategic"] = 0
    /\ stage \in {"StrategicAnalysis", "Completed"} => e_pc = "returned"

\* Two emergent batches, both failed: the stage raised and the run failed.
C6_Witness ==
    /\ e_pc = "raised"
    /\ Len(tasks["emergent"]) = 2
    /\ stage = "Failed"

\* One emergent batch failed, the other succeeded: the stage returned.
C6_WitnessSuccess ==
    /\ e_pc = "returned"
    /\ \E i \in 1..Len(tasks["emergent"]) :
          IsException(tasks["emergent"][i].result)

(* C7: no error arising from an individual question-mapping request or   *)
(* from processing its result aborts the question-mapping stage or the   *)
(* run; the affected item is dropped and the rest is still processed.    *)
C7_MappingErrorsAbsorbed ==
    /\ q_pc # "raised"
    /\ error # "AttributeError"

(* C8: when verbatim extraction yields zero records the run goes         *)
(* directly to Failed, issues no analysis request, and surfaces a        *)
(* terminal error to its caller instead of finishing as a success.       *)
C8_EmptyExtractionFails ==
    (all_verbatims = <<>> /\ main_report # "none") =>
        /\ stage = "Failed"
        /\ main_report = "failure"
        /\ issued["mapping"] = 0
        /\ issued["emergent"] = 0
        /\ issued["strategic"] = 0

C10_FailureReturnsOriginal ==
    \A c \in Callers :
        /\ tr_calls[c].status # "raised"
        /\ tr_calls[c].failed =>
              /\ tr_calls[c].status = "returned"
              /\ tr_calls[c].output = tr_calls[c].text

\* A call whose reasoning call failed has returned.
C10_Witness ==
    \E c \in Callers :
        /\ tr_calls[c].failed
        /\ tr_calls[c].external = 1
        /\ tr_calls[c].status = "returned"
        /\ is_chinese(tr_calls[c].output)

(* C11: _process_mapping_result never indexes the objectives list        *)
(* outside its range: for an identifier ID-n a row is appended only if   *)
(* 1 <= n <= len(objectives) and confidence is not Low, and that row     *)
(* carries the section and question of objectives[n-1]; ID-0 and every   *)
(* out-of-range identifier yield no row.                                 *)
C11_Identifiers ==
    { <<ID0, 0>>, <<ID00, 0>>, <<ID1, 1>>, <<ID2, 2>>, <<ID9, 9>>,
      <<ID10, 10>> }

C11_IndexInRange ==
    q_pc = "processed" =>
        LET result == tasks["mapping"][1].result
            confidence == DictGet(result.confidence, LowConfidence)
        IN /\ Len(all_mappings) <= 1
           /\ all_mappings # <<>> =>
                 \E n \in 1..Len(objectives) :
                    /\ all_mappings[1].Section = objectives[n].section
                    /\ all_mappings[1].Question = objectives[n].question
           /\ \A p \in C11_Identifiers :
                 result.best_fit_question_id = JStr(p[1]) =>
                    /\ all_mappings # <<>> =>
                          /\ p[2] \in 1..Len(objectives)
                          /\ confidence # LowConfidence
                          /\ all_mappings[1].Section = objectives[p[2]].section
                          /\ all_mappings[1].Question = objectives[p[2]].question
                    /\ p[2] \notin 1..Len(objectives) => all_mappings = <<>>

\* ID-2 with two objectives: the row of the second objective was appended.
C11_Witness ==
    /\ q_pc = "processed"
    /\ tasks["mapping"][1].result.best_fit_question_id = JStr(ID2)
    /\ Len(objectives) = 2
    /\ Len(all_mappings) = 1
    /\ all_mappings[1].Question = objectives[2].question

(* C12: every verbatim left out of the question-mapping output (failed   *)
(* request, ID-0 or Low confidence, out-of-range or malformed            *)
(* identifier) produces a log entry where it is dropped.                 *)
C12_EveryDropLogged ==
    (q_pc = "returned" /\ objectives # <<>>) =>
        Len(all_mappings) + Len(log) = Len(all_verbatims)

(* C13: StrategicAnalysis never starts while either parallel branch      *)
(* still has unsettled work: both question mapping and emergent-topic    *)
(* analysis have completed before the first strategic-analysis request   *)
(* is issued, under every interleaving of the two branches.              *)
C13_StrategicStarted ==
    \/ stage = "StrategicAnalysis"
    \/ s_pc # "idle"
    \/ tasks["strategic"] # <<>>
    \/ issued["strategic"] > 0

C13_BothBranchesAwaited ==
    C13_StrategicStarted =>
        /\ q_pc = "returned"
        /\ e_pc = "returned"
        /\ Settled("mapping")
        /\ Settled("emergent")
        /\ q_batch = SliceCount(all_verbatims, config.verbatim_batch_size)
               \/ objectives = <<>>

\* A strategic request is in flight after the emergent branch returned
\* first and the mapping branch, two batches long, returned after it.
C13_Witness ==
    /\ stage = "StrategicAnalysis"
    /\ InFlight("strategic") # {}
    /\ q_batch = 2
    /\ Len(all_mappings) >= 1

(* C14: a run visits stages only in the order Idle, ExtractingObjectives, *)
(* ExtractingVerbatims, ParallelAnalysis, StrategicAnalysis, Completed,   *)
(* with Failed entered only on a fatal condition; no stage is gone back   *)
(* to or re-entered, and once a run has ended (Completed, Failed, or the  *)
(* return taken on an empty extraction) nothing changes any more.         *)
C14_Rank(st) ==
    CASE st = "Idle" -> 0
      [] st = "ExtractingObjectives" -> 1
      [] st = "ExtractingVerbatims" -> 2
      [] st = "ParallelAnalysis" -> 3
      [] st = "StrategicAnalysis" -> 4
      [] OTHER -> 5

C14_Terminal == {"Completed", "Failed", "ReturnedEarly"}

C14_StageOrder ==
    [][ /\ stage \notin C14_Terminal
        /\ stage' # stage => C14_Rank(stage') > C14_Rank(stage)
        /\ (stage' \notin C14_Terminal /\ stage' # stage) =>
               C14_Rank(stage') = C14_Rank(stage) + 1
        /\ (stage' = "Failed" /\ stage' # stage) =>
               /\ error' \in {"ServiceError", "JSONDecodeError",
                               "AttributeError", "NoValidResults"}
               /\ main_report' = "failure"
        /\ (stage' = "Completed" /\ stage' # stage) =>
               /\ stage \in {"ParallelAnalysis", "StrategicAnalysis"}
               /\ error' = "none" ]_vars

\* A run that went through every stage and completed with strategic rows.
C14_Witness ==
    /\ stage = "Completed"
    /\ s_pc = "returned"
    /\ analyses # <<>>
    /\ all_mappings # <<>>

(* C15: provided every external call eventually settles, every started  *)
(* run eventually ends, in exactly one of Completed (run_pipeline        *)
(* returned and main reported success) or Failed (main reported the      *)
(* failure); no stage waits for ever on a request or a concurrency slot. *)
C15_RunTerminates ==
    /\ (stage = "ExtractingObjectives") ~> (main_report # "none")
    /\ [](main_report \in {"none", "success", "failure"})
    /\ [](main_report = "failure" <=> stage = "Failed")
    /\ [](main_report = "success" <=> stage \in {"Completed", "ReturnedEarly"})
    /\ [](main_report # "none" => InFlightCount = 0)

\* A run completed through one slot, with several mapping batches, chunks
\* and strategic batches: every call of every stage had to wait its turn.
C15_Witness ==
    /\ stage = "Completed"
    /\ config.max_concurrent_requests = 1
    /\ Len(all_verbatims) = MaxLiveVerbatims
    /\ q_batch = MaxLiveVerbatims
    /\ Len(chunks) = MaxLiveVerbatims
    /\ s_batch = 2
    /\ issued["strategic"] = 2

(* C16: a caller of call_gpt5_nano that finds all concurrency slots      *)
(* occupied suspends and is admitted once a slot frees; a slot is        *)
(* released whenever its call returns or raises, so every waiting caller *)
(* is eventually admitted and, once no call is in flight, all            *)
(* max_concurrent_requests slots are free again.                         *)
C16_InFlight == {c \in Callers : tr_calls[c].status = "inflight"}

C16_WaitersAdmitted ==
    /\ \A c \in Callers :
          (tr_calls[c].status = "waiting" /\ sem_value = 0)
              ~> (tr_calls[c].status = "inflight")
    /\ [](sem_value = config.max_concurrent_requests - Cardinality(C16_InFlight))
    /\ [](C16_InFlight = {} => sem_value = config.max_concurrent_requests)

\* One slot: a caller that had to wait holds it after the first caller's
\* call failed and released it.
C16_Witness ==
    /\ config.max_concurrent_requests = 1
    /\ \E c1 \in Callers, c2 \in Callers :
          /\ tr_calls[c1].status = "returned"
          /\ tr_calls[c1].failed
          /\ tr_calls[c2].status = "inflight"

(* C17: the ceiling _chunk_verbatims compares against for every          *)
(* membership decision equals min(target_input_tokens_per_chunk,         *)
(* max_tokens - 1000 - response_tokens - safety_buffer), whichever of    *)
(* the two terms is smaller.                                             *)
C17_Budget ==
    config.max_tokens - 1000 - config.response_tokens - config.safety_buffer

C17_Expected ==
    IF config.target_input_tokens_per_chunk <= C17_Budget
    THEN config.target_input_tokens_per_chunk
    ELSE C17_Budget

C17_CeilingIsMin ==
    ck_pc = "done" =>
        /\ Ceiling(config) = C17_Expected
        /\ \A i \in 1..Len(chunks) :
              /\ Len(chunks[i]) > 1 => BatchTokens(chunks[i]) <= C17_Expected
              /\ i < Len(chunks) =>
                    BatchTokens(chunks[i]) + get_token_count(chunks[i + 1][1])
                        > C17_Expected

\* The budget term is the smaller one, and it both kept two records
\* together and closed a batch.
C17_Witness ==
    /\ ck_pc = "done"
    /\ C17_Budget < config.target_input_tokens_per_chunk
    /\ Len(chunks) >= 2
    /\ \E i \in 1..Len(chunks) : Len(chunks[i]) = 2

(* C18: for every successfully analysed topic pair the number of rows    *)
(* appended by _process_strategic_result equals max(len(themes),         *)
(* len(takeaways), len(quotes)), and is 1 when all three lists are empty. *)
C18_Result == tasks["strategic"][1].result

C18_MaxLen ==
    LET a == Len(C18_Result.key_themes)
        b == Len(C18_Result.key_takeaways)
        c == Len(C18_Result.supporting_quotes)
    IN IF a >= b /\ a >= c THEN a ELSE IF b >= c THEN b ELSE c

C18_RowCount ==
    (s_pc = "processed" /\ C18_Result.kind = "dict") =>
        Len(analyses) = IF C18_MaxLen = 0 THEN 1 ELSE C18_MaxLen

\* Two takeaways, fewer themes and quotes: two rows.
C18_Witness ==
    /\ s_pc = "processed"
    /\ C18_Result.kind = "dict"
    /\ Len(C18_Result.key_takeaways) = 2
    /\ Len(C18_Result.key_themes) = 1
    /\ C18_Result.supporting_quotes = <<>>
    /\ Len(analyses) = 2

(* C19: for every expanded topic pair, row j carries themes[j],          *)
(* takeaways[j] and quotes[j] where the list has an element at index j   *)
(* and the empty string where it does not, and every row carries the     *)
(* same Broad Topic, Sub-Topic, Key Insights and Verbatim Count.         *)
C19_Item(list, j) == IF j \in DOMAIN list THEN list[j] ELSE <<>>

C19_RowContents ==
    (s_pc = "processed" /\ C18_Result.kind = "dict") =>
        \A j \in 1..Len(analyses) :
            /\ analyses[j].Theme = C19_Item(C18_Result.key_themes, j)
            /\ analyses[j].Takeaway = C19_Item(C18_Result.key_takeaways, j)
            /\ analyses[j].SupportingQuote =
                  C19_Item(C18_Result.supporting_quotes, j)
            /\ analyses[j].BroadTopic = TopicA.broad_topic
            /\ analyses[j].SubTopic = TopicA.sub_topic
            /\ analyses[j].KeyInsights = C18_Result.key_insights
            /\ analyses[j].VerbatimCount = Len(topics[1][2])

\* themes = [A, B], takeaways = [X], quotes = []: the second row has theme
\* B, no takeaway and no quote, and the insights and count of the first.
C19_Witness ==
    /\ s_pc = "processed"
    /\ C18_Result.kind = "dict"
    /\ C18_Result.key_themes = << <<"A">>, <<"B">> >>
    /\ C18_Result.key_takeaways = << <<"X">> >>
    /\ C18_Result.supporting_quotes = <<>>
    /\ Len(analyses) = 2
    /\ analyses[2].Theme = <<"B">>
    /\ analyses[2].Takeaway = <<>>
    /\ analyses[2].KeyInsights = <<"i">>
    /\ analyses[2].VerbatimCount = 2

(* C20: aggregation places each verbatim into the bucket of every        *)
(* (broad_topic, sub_topic) it is assigned, once per assignment and in   *)
(* input order: the bucket sizes sum to the total number of topic        *)
(* assignments, and a verbatim with no assignments is in no bucket.      *)
RECURSIVE C20_EntriesOf(_, _)
C20_EntriesOf(vts, topic) ==
    IF vts = <<>> THEN <<>>
    ELSE LET v == Head(vts)
             m == Len(SelectSeq(v.assigned_topics, LAMBDA t : t = topic))
         IN [i \in 1..m |-> [text |-> v.text, speaker |-> v.speaker]]
               \o C20_EntriesOf(Tail(vts), topic)

RECURSIVE C20_SumSizes(_)
C20_SumSizes(buckets) ==
    IF buckets = <<>> THEN 0
    ELSE Len(Head(buckets)[2]) + C20_SumSizes(Tail(buckets))

RECURSIVE C20_Assignments(_)
C20_Assignments(vts) ==
    IF vts = <<>> THEN 0
    ELSE Len(Head(vts).assigned_topics) + C20_Assignments(Tail(vts))

C20_FanOut ==
    s_pc = "aggregated" =>
        LET vts == emergent_report.verbatims_with_topics IN
        /\ C20_SumSizes(topics) = C20_Assignments(vts)
        /\ \A t \in {TopicA, TopicB} :
              LET expected == C20_EntriesOf(vts, t)
                  found == {b \in 1..Len(topics) : topics[b][1] = TopicKey(t)}
              IN IF expected = <<>> THEN found = {}
                 ELSE /\ Cardinality(found) = 1
                      /\ \A b \in found : topics[b][2] = expected

\* The first record is assigned both topics, the second one of them: two
\* buckets, the first with both records in input order.
C20_Witness ==
    /\ s_pc = "aggregated"
    /\ Len(emergent_report.verbatims_with_topics) = 2
    /\ emergent_report.verbatims_with_topics[1].assigned_topics
          = <<TopicA, TopicB>>
    /\ emergent_report.verbatims_with_topics[2].assigned_topics = <<TopicA>>
    /\ emergent_report.verbatims_with_topics[1].text
          # emergent_report.verbatims_with_topics[2].text
    /\ Len(topics) = 2
    /\ Len(topics[1][2]) = 2
    /\ topics[1][2][1].text = emergent_report.verbatims_with_topics[1].text

----------------------------------------------------------------------------
\* C21: buckets are keyed by the pair (broad_topic, sub_topic): two
\* different assigned pairs never share a bucket, and the broad_topic and
\* sub_topic handed to strategic analysis equal a pair that was assigned.
\* The code joins the pair with "|" and splits the key at its first "|",
\* so the property fails for a broad_topic that contains "|".
C21_AssignedPairsOfReport ==
    { t \in {TopicA, TopicB, TopicP, TopicQ} :
        \E i \in 1..Len(emergent_report.verbatims_with_topics) :
          \E j \in 1..Len(emergent_report.verbatims_with_topics[i].assigned_topics) :
            emergent_report.verbatims_with_topics[i].assigned_topics[j] = t }

C21_KeyRoundTrip ==
    s_pc = "aggregated" =>
      /\ Len(topics) = Cardinality(C21_AssignedPairsOfReport)
      /\ \A b \in 1..Len(topics) :
           LET req == StrategicRequest(topics[b]) IN
           [broad_topic |-> req.broad_topic, sub_topic |-> req.sub_topic]
             \in C21_AssignedPairsOfReport

\* C22: with execute_api_calls off, every call_gpt5_nano call returns the
\* fixed sentinel (which no caller can decode) without taking a semaphore
\* slot and without an external call, however many calls are pending at
\* the same time.
C22_CallsOf(k) == {i \in 1..Len(tasks[k]) : tasks[k][i].status = "done"}

C22_DryRunBypassesGate ==
    ~config.execute_api_calls =>
      /\ sem_value = config.max_concurrent_requests
      /\ \A k \in Kinds :
           /\ issued[k] = 0
           /\ \A i \in 1..Len(tasks[k]) : tasks[k][i].status # "inflight"
           /\ \A i \in C22_CallsOf(k) :
                tasks[k][i].result =
                    [kind |-> "exception", exc |-> "JSONDecodeError",
                     for |-> tasks[k][i].req]

C22_Witness ==
    /\ ~config.execute_api_calls
    /\ config.max_concurrent_requests = 1
    /\ Len(tasks["emergent"]) >= 2
    /\ C22_CallsOf("emergent") # {}
    /\ \E i \in 1..Len(tasks["emergent"]) :
          tasks["emergent"][i].status = "created"

\* C23: dry-run mode needs no credentials: with execute_api_calls off and
\* no API key configured, the client is constructed and the run starts.
\* The code raises ValueError in AIClient.__init__ whenever the key is
\* missing, so the property fails.
C23_DryRunNeedsNoKey ==
    (~config.execute_api_calls /\ config.api_key = "unset" /\ stage # "New")
        => error # "ValueError"

\* C24: translate_text on a text that needs no translation (no character
\* of it is a CJK character) returns the text unchanged, issues no
\* external reasoning call and leaves the cache mapping the text to itself.
C24_NeedsNoTranslation(text) == \A i \in 1..Len(text) : text[i] \notin ChineseChars

C24_PlainTextIsIdentity ==
    \A c \in DOMAIN tr_calls :
        C24_NeedsNoTranslation(tr_calls[c].text) =>
            /\ tr_calls[c].external = 0
            /\ tr_calls[c].status \in {"new", "returned"}
            /\ tr_calls[c].status = "returned" =>
                  /\ tr_calls[c].output = tr_calls[c].text
                  /\ tr_calls[c].text \in DOMAIN translation_cache
                  /\ translation_cache[tr_calls[c].text] = tr_calls[c].text

\* A first call with a plain text has returned (not from the cache) while
\* the other caller translates a Chinese text.
C24_Witness ==
    \E c \in DOMAIN tr_calls, d \in DOMAIN tr_calls :
        /\ C24_NeedsNoTranslation(tr_calls[c].text)
        /\ tr_calls[c].status = "returned"
        /\ ~tr_calls[c].hit
        /\ translation_cache[tr_calls[c].text] = tr_calls[c].text
        /\ tr_calls[d].external = 1

\* C25: when no discussion guide is found, objective extraction is not
\* fatal: the run goes on to verbatim extraction with an empty objectives
\* list, question mapping issues no reasoning request and returns an empty
\* result, and emergent-topic analysis still issues its requests.
C25_NoGuideState ==
    guide = "none" =>
        /\ objectives = <<>>
        /\ tasks["objectives"] = <<>> /\ issued["objectives"] = 0
        /\ tasks["mapping"] = <<>> /\ issued["mapping"] = 0
        /\ all_mappings = <<>>
        /\ q_pc \in {"idle", "init", "returned"}
        /\ stage = "ExtractingObjectives" => main_report = "none"
        /\ e_pc \notin {"idle", "init"} =>
              /\ tasks["emergent"] # <<>>
              /\ Len(tasks["emergent"]) = Len(chunks)

C25_NoGuideStep ==
    (guide = "none" /\ stage = "ExtractingObjectives")
        => (stage' = "ExtractingVerbatims" /\ objectives' = <<>>)

C25_NoGuideIsNotFatal == [](C25_NoGuideState) /\ [][C25_NoGuideStep]_vars

\* Without a guide, mapping has returned at once and an emergent request
\* is with the service.
C25_Witness ==
    /\ guide = "none"
    /\ stage = "ParallelAnalysis"
    /\ q_pc = "returned"
    /\ InFlight("emergent") # {}
    /\ issued["emergent"] >= 1

\* C26: when the emergent report has no topic-bearing verbatim (no record
\* of it has an assigned topic), StrategicAnalysis is skipped: no strategic
\* request is created or issued, the strategic result stays empty, and the
\* step taken once both branches have returned ends the run in Completed
\* with success; such a run is Failed only if question mapping raised.
C26_ZeroTopicBearing ==
    /\ e_pc = "returned"
    /\ \A i \in 1..Len(emergent_report.verbatims_with_topics) :
          emergent_report.verbatims_with_topics[i].assigned_topics = <<>>

C26_SkippedState ==
    C26_ZeroTopicBearing =>
        /\ stage \in {"ParallelAnalysis", "Completed", "Failed"}
        /\ tasks["strategic"] = <<>>
        /\ issued["strategic"] = 0
        /\ analyses = <<>>
        /\ topics = <<>>
        /\ stage = "Failed" => q_pc = "raised"
        /\ (stage = "ParallelAnalysis" /\ q_pc = "returned") => ENABLED Join

C26_SkippedStep ==
    (C26_ZeroTopicBearing /\ q_pc = "returned" /\ stage = "ParallelAnalysis")
        => (stage' = "Completed" /\ main_report' = "success")

RECURSIVE C27_IsSubsequence(_, _)
C27_IsSubsequence(rows, verbatims) ==
    IF rows = <<>> THEN TRUE
    ELSE IF verbatims = <<>> THEN FALSE
    ELSE IF /\ Head(rows).Verbatim = Head(verbatims).text
            /\ Head(rows).Speaker = Head(verbatims).speaker
            /\ Head(rows).SourceFile = Head(verbatims).source_file
         THEN C27_IsSubsequence(Tail(rows), Tail(verbatims))
         ELSE C27_IsSubsequence(rows, Tail(verbatims))

C27_BatchState ==
    /\ C27_IsSubsequence(all_mappings, all_verbatims)
    /\ \A i \in 1..Len(tasks["mapping"]) :
          LET pos == (q_batch - 1) * config.verbatim_batch_size + i IN
          /\ q_batch >= 1
          /\ i <= config.verbatim_batch_size
          /\ pos <= Len(all_verbatims)
          /\ tasks["mapping"][i].req = all_verbatims[pos]
    /\ Len(all_mappings) <= q_batch * config.verbatim_batch_size

C27_BatchStep ==
    /\ q_batch' # q_batch =>
          /\ q_batch' = q_batch + 1
          /\ q_batch >= 1 => Settled("mapping")
    /\ tasks'["mapping"] # tasks["mapping"] =>
          \/ q_batch' = q_batch
          \/ \A i \in 1..Len(tasks'["mapping"]) :
                tasks'["mapping"][i].status = "created"

C27_BatchesInOrder == [](C27_BatchState) /\ [][C27_BatchStep]_vars

\* The second request of a batch completed before the first, and the rows
\* are in input order.
C27_Witness ==
    /\ q_pc = "returned"
    /\ completed["mapping"] = <<2, 1>>
    /\ Len(all_mappings) = 2
    /\ all_mappings[1].Speaker = "Alice"
    /\ all_mappings[2].Speaker = "Cara"

C27_WitnessSecondBatch ==
    /\ q_batch = 2
    /\ Len(all_mappings) = 3
    /\ q_pc = "returned"

\* C28: chunking runs to completion before any dispatch: while the
\* chunker has visited only part of the verbatims no request of the
\* parallel stage has been started or is in flight and no emergent request
\* exists yet; no step of another task happens meanwhile, none changes the
\* chunker's locals, and what it returns is the whole chunking.
C28_Chunking == e_pc = "chunking"

C28_ChunkingState ==
    /\ C28_Chunking =>
          /\ InFlightCount = 0
          /\ sem_value = config.max_concurrent_requests
          /\ tasks["emergent"] = <<>>
          /\ chunks = <<>>
          /\ \A k \in {"mapping", "emergent", "strategic"} :
                /\ issued[k] = 0
                /\ \A i \in 1..Len(tasks[k]) : tasks[k][i].status = "created"
    /\ e_pc \in {"gather", "returned", "raised"} =>
          /\ chunks = chunk_verbatims(all_verbatims, config)
          /\ Len(tasks["emergent"]) = Len(chunks)

C28_ChunkingStep ==
    /\ chunker' # chunker => (C28_Chunking \/ e_pc = "init")
    /\ C28_Chunking =>
          /\ tasks'["mapping"] = tasks["mapping"]
          /\ tasks'["strategic"] = tasks["strategic"]
          /\ <<sem_value, issued, completed, q_pc, q_batch, stage>>' =
                <<sem_value, issued, completed, q_pc, q_batch, stage>>

C28_ChunkingBeforeDispatch ==
    [](C28_ChunkingState) /\ [][C28_ChunkingStep]_vars

\* The chunker has visited two verbatims and has one left, while the
\* mapping requests created before it are waiting for their first step.
C28_Witness ==
    /\ C28_Chunking
    /\ Len(chunker.current_chunk) = 2
    /\ chunker.rest # <<>>
    /\ tasks["mapping"] # <<>>
    /\ config.execute_api_calls

\* C29: extraction over the lines of a transcript yields exactly one
\* record per line on which extract_speaker_and_text returns a match, in
\* line order, and no record has an empty text.  _extract_from_txt leaves
\* out every line up to the first separator line that is not the file's
\* first line, so the property fails for a matching line above one.
RECURSIVE C29_RecordsOf(_)
C29_RecordsOf(lines) ==
    IF lines = <<>> THEN <<>>
    ELSE LET r == extract_speaker_and_text(Head(lines)) IN
         (IF r = <<>> THEN <<>>
          ELSE << [speaker |-> r[1], text |-> r[2], timestamp |-> r[3]] >>)
            \o C29_RecordsOf(Tail(lines))

C29_Extracted(v) ==
    [speaker |-> v.speaker, text |-> v.text,
     timestamp |-> IF "timestamp" \in DOMAIN v THEN v.timestamp ELSE <<>>]

C29_Done == stage # "ExtractingVerbatims"

C29_OneRecordPerMatch ==
    C29_Done =>
        /\ Len(all_verbatims) = Len(C29_RecordsOf(transcript))
        /\ \A i \in 1..Len(all_verbatims) :
              /\ C29_Extracted(all_verbatims[i]) = C29_RecordsOf(transcript)[i]
              /\ all_verbatims[i].text # <<>>

\* C30: the chunker closes a batch only when forced: for every two
\* consecutive output batches, the summed token cost of the earlier one
\* plus the cost of the first record of the later one exceeds the ceiling.
C30_ClosedOnlyWhenForced ==
    ck_pc = "done" =>
        \A i \in 1..(Len(chunks) - 1) :
            BatchTokens(chunks[i]) + get_token_count(chunks[i + 1][1])
                > Min(config.target_input_tokens_per_chunk,
                      config.max_tokens - base_tokens - config.response_tokens
                          - config.safety_buffer)

\* Two records were packed together and the third opened a new batch.
C30_Witness ==
    /\ ck_pc = "done"
    /\ Len(chunks) = 2
    /\ Len(chunks[1]) = 2
    /\ Len(chunks[2]) = 1
    /\ BatchTokens(chunks[1]) > get_token_count(chunks[1][1])

\* C31: when several emergent-topic batches succeed, the stage's result is
\* the result of the successful batch that comes first in chunking order,
\* whatever order the batches completed in; the other results are dropped.
C31_Succeeded(i) ==
    /\ tasks["emergent"][i].status \in {"done", "cancelled"}
    /\ tasks["emergent"][i].result.kind = "dict"

C31_LowestSuccessfulWins ==
    e_pc = "returned" =>
        \E i \in 1..Len(tasks["emergent"]) :
            /\ tasks["emergent"][i].result.kind = "dict"
            /\ \A j \in 1..(i - 1) :
                  tasks["emergent"][j].result.kind = "exception"
            /\ emergent_report = tasks["emergent"][i].result
            /\ emergent_report.for = chunks[i]

\* Two batches succeeded with different reports, the second one first.
C31_Witness ==
    /\ e_pc = "returned"
    /\ Len(tasks["emergent"]) = 2
    /\ completed["emergent"] = <<2, 1>>
    /\ C31_Succeeded(1)
    /\ C31_Succeeded(2)
    /\ tasks["emergent"][2].result.verbatims_with_topics # <<>>
    /\ emergent_report.verbatims_with_topics = <<>>
    /\ emergent_report.for = chunks[1]

\* C32: in extract_speaker_and_text the speaker+text pattern is attempted
\* whenever the speaker+timestamp+text step returned nothing, also when
\* that pattern matched with an empty text; if it then matches with a
\* non-empty text, (speaker, text, None) is returned, so the line gives a
\* record without timestamp.  The code returns None as soon as the
\* timestamp pattern has matched, so the property fails.
C32_TimestampStepReturnsNothing(line) ==
    \/ line.timestamp_match = <<>>
    \/ Strip(line.timestamp_match[3]) = <<>>

C32_SimpleStepMatches(line) ==
    /\ ~line.blank
    /\ line.simple_match # <<>>
    /\ Strip(line.simple_match[2]) # <<>>

C32_SimplePatternAttempted ==
    stage # "ExtractingVerbatims" =>
        \A i \in (find_content_start(transcript) + 1)..Len(transcript) :
            ( /\ C32_TimestampStepReturnsNothing(transcript[i])
              /\ C32_SimpleStepMatches(transcript[i]) )
            => \E j \in 1..Len(all_verbatims) :
                  all_verbatims[j] =
                      [speaker |-> Strip(transcript[i].simple_match[1]),
                       text |-> Strip(transcript[i].simple_match[2]),
                       source_file |-> "t1.txt"]

\* C33: within a run every emergent-topic batch is submitted in exactly
\* one reasoning call and every verbatim gets at most one question-mapping
\* call; a request that has settled, failed or not, is never issued again.
C33_Started(k) ==
    Cardinality({i \in 1..Len(tasks[k]) :
                    tasks[k][i].status \in {"inflight", "done"}})

C33_CallsState ==
    /\ issued["emergent"] <= Len(chunks)
    /\ issued["mapping"] <= Len(all_verbatims)
    /\ (Alive /\ config.execute_api_calls) =>
          /\ issued["emergent"] = C33_Started("emergent")
          /\ q_batch >= 1 =>
                issued["mapping"] =
                    (q_batch - 1) * config.verbatim_batch_size
                        + C33_Started("mapping")
          /\ e_pc \in {"returned", "raised"} =>
                issued["emergent"] = Len(chunks)
          /\ (q_pc = "returned" /\ objectives # <<>>) =>
                issued["mapping"] = Len(all_verbatims)

C33_CallsStep ==
    \A k \in {"mapping", "emergent"} :
        /\ issued'[k] \in {issued[k], issued[k] + 1}
        /\ (q_batch' = q_batch) =>
              \A i \in 1..Len(tasks[k]) :
                  tasks[k][i].status = "done" =>
                      /\ i <= Len(tasks'[k])
                      /\ tasks'[k][i].status \in {"done", "cancelled"}
                      /\ tasks'[k][i].result = tasks[k][i].result
        /\ issued'[k] = issued[k] + 1 =>
              \E i \in 1..Len(tasks[k]) :
                  /\ tasks[k][i].status = "created"
                  /\ tasks'[k][i].status = "inflight"

C33_NoRequestReissued == [](C33_CallsState) /\ [][C33_CallsStep]_vars

\* Both branches are over after failures in each: one call per emergent
\* batch and one per verbatim were issued.
C33_Witness ==
    /\ Alive
    /\ q_pc = "returned"
    /\ e_pc = "returned"
    /\ Len(chunks) = 2
    /\ issued["emergent"] = 2
    /\ issued["mapping"] = 3
    /\ IsException(tasks["emergent"][1].result)
    /\ Len(all_mappings) < 3
    /\ log # <<>>

\* C34: a failed translation leaves the translation cache unchanged: no
\* entry is added for the text, so a later translate_text call with the
\* same text is not answered from the cache and issues a new reasoning
\* call.
C34_FailureStep ==
    \A c \in DOMAIN tr_calls :
        (c \in DOMAIN tr_calls' /\ ~tr_calls[c].failed /\ tr_calls'[c].failed)
            => translation_cache' = translation_cache

C34_LaterCallState ==
    \A c1 \in DOMAIN tr_calls, c2 \in DOMAIN tr_calls :
        ( /\ tr_calls[c1].failed
          /\ c1 \in tr_calls[c2].prior
          /\ tr_calls[c1].text = tr_calls[c2].text )
        => /\ ~tr_calls[c2].hit
           /\ tr_calls[c2].status \in {"waiting", "inflight", "returned"}
           /\ tr_calls[c2].status \in {"inflight", "returned"}
                 => tr_calls[c2].external = 1

C34_FailureNotMemoized == [](C34_LaterCallState) /\ [][C34_FailureStep]_vars

\* After a failed call the same text was sent to the service again and
\* this time translated.
C34_Witness ==
    \E c1 \in DOMAIN tr_calls, c2 \in DOMAIN tr_calls :
        /\ tr_calls[c1].failed
        /\ c1 \in tr_calls[c2].prior
        /\ tr_calls[c1].text = tr_calls[c2].text
        /\ tr_calls[c2].status = "returned"
        /\ tr_calls[c2].external = 1
        /\ ~tr_calls[c2].failed
        /\ tr_calls[c2].output # tr_calls[c1].output

\* C35: only a missing guide degrades objective extraction: when the
\* guide is found and the objective-extraction call fails or returns a
\* response that does not parse, the error propagates and the run ends in
\* Failed before verbatim extraction starts.
C35_ExtractionFailed ==
    /\ guide = "found"
    /\ tasks["objectives"] # <<>>
    /\ tasks["objectives"][1].result.kind = "exception"

C35_FailedState ==
    C35_ExtractionFailed =>
        /\ stage \in {"ExtractingObjectives", "Failed"}
        /\ all_verbatims = <<>>
        /\ objectives = <<>>
        /\ q_pc = "idle" /\ e_pc = "idle" /\ s_pc = "idle"
        /\ \A k \in {"mapping", "emergent", "strategic"} :
              tasks[k] = <<>> /\ issued[k] = 0
        /\ stage = "Failed" =>
              /\ main_report = "failure"
              /\ error = tasks["objectives"][1].result.exc
        /\ stage = "ExtractingObjectives" => ENABLED ObjectivesDone

C35_FailedStep ==
    (C35_ExtractionFailed /\ stage = "ExtractingObjectives")
        => (stage' = "Failed" /\ main_report' = "failure")

C35_GuideFailureIsFatal == [](C35_FailedState) /\ [][C35_FailedStep]_vars

\* The response to the objective-extraction call did not parse and the
\* run has failed.
C35_Witness ==
    /\ C35_ExtractionFailed
    /\ stage = "Failed"
    /\ error = "JSONDecodeError"
    /\ config.execute_api_calls
    /\ issued["objectives"] = 1

\* C36: in dry-run mode every structured-response request ends as a
\* failure of that request, because the sentinel text does not parse; a
\* dry run therefore never reaches StrategicAnalysis or Completed, and
\* one that extracts a verbatim ends in Failed: at objective extraction
\* when a guide exists, otherwise at emergent-topic analysis.
C36_DryRunState ==
    ~config.execute_api_calls =>
        /\ \A k \in Kinds : \A i \in 1..Len(tasks[k]) :
              tasks[k][i].status = "done" =>
                  tasks[k][i].result.kind = "exception"
        /\ stage \notin {"StrategicAnalysis", "Completed"}
        /\ main_report = "success" => all_verbatims = <<>>
        /\ guide = "found" =>
              /\ stage \in {"Idle", "ExtractingObjectives", "Failed"}
              /\ all_verbatims = <<>>
              /\ stage = "Failed" => error = "JSONDecodeError"
        /\ (guide # "found" /\ stage = "Failed") =>
              /\ e_pc = "raised"
              /\ error = "NoValidResults"
              /\ all_verbatims # <<>>

C36_DryRunEnds ==
    (~config.execute_api_calls /\ stage = "ExtractingObjectives")
        ~> (stage = "Failed" \/ (stage = "ReturnedEarly" /\ all_verbatims = <<>>))

C36_DryRunFails == [](C36_DryRunState) /\ C36_DryRunEnds

\* A dry run without a guide extracted a verbatim and failed at
\* emergent-topic analysis.
C36_Witness ==
    /\ ~config.execute_api_calls
    /\ guide = "none"
    /\ all_verbatims # <<>>
    /\ stage = "Failed"
    /\ e_pc = "raised"
    /\ q_pc = "returned"

\* C37: the Verbatim Count written on a topic's rows is the full size of
\* the topic's bucket, also when the bucket holds more than
\* max_verbatims_per_topic verbatims and only its first
\* max_verbatims_per_topic entries are sent to the reasoning service.
C37_Sent == tasks["strategic"][1].result.for.verbatim_list

C37_CountIsBucketSize ==
    (s_pc \in {"process", "processed"}) =>
        /\ Len(C37_Sent) =
              IF Len(topics[1][2]) > config.max_verbatims_per_topic
              THEN config.max_verbatims_per_topic
              ELSE Len(topics[1][2])
        /\ \A i \in 1..Len(C37_Sent) : C37_Sent[i] = topics[1][2][i]
        /\ (s_pc = "processed" /\ tasks["strategic"][1].result.kind = "dict") =>
              /\ analyses # <<>>
              /\ \A j \in 1..Len(analyses) :
                    analyses[j].VerbatimCount = Len(topics[1][2])

\* A bucket of three under a limit of two: two verbatims were sent and
\* the rows say three.
C37_Witness ==
    /\ s_pc = "processed"
    /\ config.max_verbatims_per_topic = 2
    /\ Len(topics[1][2]) = 3
    /\ Len(C37_Sent) = 2
    /\ Len(analyses) = 2
    /\ analyses[2].VerbatimCount = 3

\* C38: whatever the order of /configure, /analyze, /progress and /results
\* requests and of the steps of the run_analysis threads, the progress
\* that /progress reports never decreases, and a session whose status is
\* 'completed' stays 'completed' with its results in the session.
C38_ReportedProgress ==
    IF SessionId \in DOMAIN sessions
    THEN Get(sessions[SessionId], "progress", 0)
    ELSE 0

C38_Completed ==
    /\ SessionId \in DOMAIN sessions
    /\ Get(sessions[SessionId], "status", "unknown") = "completed"

C38_ProgressNeverDecreases ==
    [][C38_ReportedProgress' >= C38_ReportedProgress]_vars

C38_CompletedHasResults ==
    C38_Completed => "results" \in DOMAIN sessions[SessionId]

C38_CompletedStays == [][C38_Completed => C38_Completed']_vars

C38_ProgressMonotoneCompletedStable ==
    /\ C38_ProgressNeverDecreases
    /\ [](C38_CompletedHasResults)
    /\ C38_CompletedStays

\* C39: after main() has applied the overrides of its flags in sequence
\* through update_runtime, the configuration it holds has every one of
\* them in effect, and its non-runtime settings are those of the file.
C39_InEffect(flag, runtime) ==
    \A k \in DOMAIN Override(flag) :
        k \in DOMAIN runtime /\ runtime[k] = Override(flag)[k]

C39_OverridesAccumulate ==
    /\ cli.pc # "raised"
    /\ cli.pc = "run" =>
          /\ \A flag \in cli.args : C39_InEffect(flag, cli.config.runtime)
          /\ cli.config.others = cli.loaded.others

====
